---- MODULE Spec2Model ----
(***************************************************************************)
(* EnhancedCoCVisualizer (src/enhanced_coc_visualizer_optimized.py): the   *)
(* need-level classification and cluster validation of                     *)
(* create_shelter_homeless_correlation_map, the filters of run, the        *)
(* year-over-year change of create_summary_metrics and the trend chart of  *)
(* create_trend_analysis.                                                  *)
(*                                                                         *)
(* The data frame correlation_data is modelled column by column: every     *)
(* column is a sequence indexed by the row number 1..Len(current_data); a  *)
(* column that has not been created yet is the empty sequence.  Floating   *)
(* point values are exact rationals <<numerator, denominator>> in lowest   *)
(* terms with a positive denominator.  A cell of the Need_Level column is  *)
(* a Python string or a Python int and carries its dynamic type:           *)
(* <<"str", "GOOD">> or <<"int", 0>>.                                      *)
(***************************************************************************)
EXTENDS Integers, Sequences, FiniteSets, TLC

VARIABLES
    current_data,          \* rows of _gdf with Year = selected_year (raw cells)
    pc,                    \* position inside create_shelter_homeless_correlation_map
    Total_Beds,            \* correlation_data['Total_Beds']
    Total_Homeless,        \* correlation_data['Total_Homeless']
    Sheltered_Homeless,    \* correlation_data['Sheltered_Homeless']
    Bed_Utilization_Rate,  \* correlation_data['Bed_Utilization_Rate']
    Bed_Gap,               \* correlation_data['Bed_Gap']
    Bed_Gap_Percentage,    \* correlation_data['Bed_Gap_Percentage']
    gap_percentiles,       \* the four cut points
    Need_Level,            \* correlation_data['Need_Level']
    Bed_Gap_Ratio,         \* correlation_data['Bed_Gap_Ratio']
    Color_Need_Score,      \* correlation_data['Color_Need_Score']
    Cluster,               \* correlation_data['Cluster']
    cluster_success,       \* "unbound", "true" or "false"
    beds_percentiles,      \* the three cut points of Total_Beds
    homeless_percentiles,  \* the three cut points of Total_Homeless
    Beds_Class,            \* correlation_data['Beds_Class']
    Homeless_Class,        \* correlation_data['Homeless_Class']
    Correlation_Class,     \* correlation_data['Correlation_Class']
    level_counts,          \* the counts of 'Current Distribution Statistics'
    displayed,             \* what the call has put on the page, in order
    environment,           \* can scikit-learn be imported, does st.plotly_chart raise
    kmeans_fits,           \* the fits of KMeans(random_state=42) so far
    first_output,          \* <<output>> of the first of two calls on one input
    self_gdf,              \* self.gdf: (Year, CoC Number) -> cell of the indicator column
    selected_year,         \* run: the year picked in the sidebar
    selected_states,       \* run: the states picked in the sidebar
    selected_categories,   \* run: the CoC categories picked in the sidebar
    value_range,           \* run: the slider range, <<>> while the local is unbound
    gdf_filtered,          \* run: CoC Number -> indicator value of the filtered rows
    summary_pc,            \* position inside run and create_summary_metrics
    current_year,          \* create_summary_metrics: gdf_filtered['Year'].iloc[0]
    current_val,           \* get_yoy_change: the current total, <<v>> once bound
    prev_val,              \* get_yoy_change: the prior total, <<v>> once bound
    change_pct,            \* get_yoy_change: the change, <<q>> once bound
    yoy_change,            \* the text get_yoy_change returned
    trend_pc,              \* position inside create_trend_analysis
    trend_data,            \* trend_data: rows [Year, value], ascending by Year
    trend_lines,           \* the line traces added to the figure
    trend_markers,         \* the marker traces added to the figure
    loaded_gdf,            \* what load_data returned, as st.cache_data keeps it
    run_pc,                \* position inside run
    invoked,               \* the analyses run has called, each with its records
    raised,                \* the exception that ended this run of the script, <<>> if none
    current_year_index,    \* st.session_state.current_year_index
    event,                 \* the widget whose change started this run of the script
    year_input,            \* timeline controls: year_input, <<y>> once bound
    slider_year,           \* timeline controls: the local selected_year, <<y>> once bound
    controls_current_year, \* timeline controls: the local current_year, <<y>> once bound
    subscripts,            \* the indices years[...] was subscripted with in this run
    sidebar_error          \* st.sidebar.error was called in this run

\* the local state of create_shelter_homeless_correlation_map
classVars == <<beds_percentiles, homeless_percentiles, Beds_Class, Homeless_Class,
               Correlation_Class>>

needVars == <<current_data, pc, Total_Beds, Total_Homeless, Sheltered_Homeless,
              Bed_Utilization_Rate, Bed_Gap, Bed_Gap_Percentage, gap_percentiles,
              Need_Level, Bed_Gap_Ratio, Color_Need_Score, Cluster, cluster_success,
              classVars, level_counts, displayed, environment, kmeans_fits,
              first_output>>

\* the data set and the sidebar selection of run
sessionVars == <<self_gdf, selected_year, selected_states, selected_categories,
                 value_range>>

\* the local state of run, create_summary_metrics and get_yoy_change
summaryVars == <<gdf_filtered, summary_pc, current_year, current_val, prev_val,
                 change_pct, yoy_change>>

\* the local state of create_trend_analysis
trendVars == <<trend_pc, trend_data, trend_lines, trend_markers>>

\* the state of run beside the sidebar selection
runVars == <<loaded_gdf, run_pc, raised>>

\* the session state and the locals of create_sidebar_timeline_controls
timelineVars == <<current_year_index, event, year_input, slider_year,
                  controls_current_year, subscripts, sidebar_error>>

vars == <<needVars, sessionVars, summaryVars, trendVars, runVars, invoked, timelineVars>>

\* what the need analysis leaves alone
outsideNeed == <<sessionVars, summaryVars, trendVars, runVars, invoked, timelineVars>>
\* what create_summary_metrics and the filters of run leave alone
outsideSummary == <<needVars, sessionVars, trendVars, runVars, timelineVars>>
\* what create_trend_analysis leaves alone
outsideTrend == <<needVars, sessionVars, summaryVars, runVars, invoked, timelineVars>>

(***************************************************************************)
(* Bounds and input samples                                                *)
(***************************************************************************)
\* largest number of regions of a year when the clustering library is missing
MaxRegions == 4
\* largest number of regions of a year when the clustering library is installed
MaxClusteredRegions == 3

\* A raw cell holds a number, <<v>>, or nothing that parses as one, <<>>.
MissingCell == <<>>
HomelessCells == {<<0>>, <<1>>, <<2>>}
BedCells == {<<0>>, <<1>>, <<2>>}
ShelteredCells == {<<1>>}

\* one row of current_data: 'Overall Homeless',
\* 'Total Year-Round Beds (ES, TH, SH)', 'Sheltered Total Homeless';
\* the last row is a region whose counts are all missing
RawRows ==
    [homeless : HomelessCells, beds : BedCells, sheltered : ShelteredCells]
        \cup {[homeless |-> MissingCell, beds |-> MissingCell, sheltered |-> MissingCell]}

(***************************************************************************)
(* Exact rationals                                                         *)
(***************************************************************************)
Abs(n) == IF n < 0 THEN -n ELSE n

RECURSIVE GCD(_, _)
GCD(a, b) == IF b = 0 THEN a ELSE GCD(b, a % b)

\* n/d in lowest terms, d > 0
Rat(n, d) == LET g == GCD(Abs(n), d) IN <<n \div g, d \div g>>

RLeq(a, b) == a[1] * b[2] <= b[1] * a[2]
RLt(a, b) == a[1] * b[2] < b[1] * a[2]

REq(a, b) == a[1] * b[2] = b[1] * a[2]

(***************************************************************************)
(* Step 1: raw counts and derived metrics (lines 1140-1184)                *)
(***************************************************************************)
\* pd.to_numeric(cell, errors='coerce') followed by fillna(0)
ToNumeric(cell) == IF cell = MissingCell THEN 0 ELSE cell[1]

Rows == 1 .. Len(current_data)

\* np.where(Total_Beds > 0, Sheltered_Homeless / Total_Beds * 100, 0)
UtilizationRate(sheltered, beds) ==
    IF beds > 0 THEN Rat(sheltered * 100, beds) ELSE Rat(0, 1)

\* the gap with its sign reversed
BedGap_Reversed(homeless, beds) == beds - homeless

\* Total_Homeless - Total_Beds
BedGap(homeless, beds) == homeless - beds

\* np.where(Total_Homeless > 0, Bed_Gap / Total_Homeless * 100, 0)
BedGapPercentage(gap, homeless) ==
    IF homeless > 0 THEN Rat(gap * 100, homeless) ELSE Rat(0, 1)

(***************************************************************************)
(* Step 3: adaptive cut points (line 1223)                                 *)
(***************************************************************************)
\* the j-th smallest value of a non-empty column, j in 1..Len(col)
OrderStatistic(col, j) ==
    LET i == CHOOSE i \in DOMAIN col :
                 /\ Cardinality({m \in DOMAIN col : RLt(col[m], col[i])}) < j
                 /\ j <= Cardinality({m \in DOMAIN col : RLeq(col[m], col[i])})
    IN col[i]

\* the interpolation with the weights of the two neighbours exchanged
Quantile_WeightsSwapped(col, k) ==
    LET n == Len(col)
        lo == ((n - 1) * k) \div 5
        r == ((n - 1) * k) % 5
        a == OrderStatistic(col, lo + 1)
        b == OrderStatistic(col, IF lo + 2 <= n THEN lo + 2 ELSE n)
    IN Rat(r * a[1] * b[2] + (5 - r) * b[1] * a[2], 5 * a[2] * b[2])

\* Series.quantile(k/5), interpolation='linear': the position (n-1)*k/5 lies
\* between two order statistics and the value is interpolated between them.
Quantile(col, k) ==
    LET n == Len(col)
        lo == ((n - 1) * k) \div 5
        r == ((n - 1) * k) % 5
        a == OrderStatistic(col, lo + 1)
        b == OrderStatistic(col, IF lo + 2 <= n THEN lo + 2 ELSE n)
    IN Rat((5 - r) * a[1] * b[2] + r * b[1] * a[2], 5 * a[2] * b[2])

GapPercentiles(col) == [k \in 1 .. 4 |-> Quantile(col, k)]

(***************************************************************************)
(* Need levels (lines 1225-1241)                                           *)
(***************************************************************************)
NeedLevels == {"NO_DATA", "EXCELLENT", "GOOD", "MODERATE", "HIGH", "CRITICAL"}

\* a cell holding a Python str, a cell holding a Python int
PyStr(s) == <<"str", s>>
PyInt(i) == <<"int", i>>

\* NO_DATA decided by a zero gap percentage instead of a zero homeless count
classify_need_level_ZeroGap(gap_percentage, total_homeless, gp) ==
    IF gap_percentage[1] = 0 THEN "NO_DATA"
    ELSE IF RLeq(gap_percentage, gp[1]) THEN "EXCELLENT"
    ELSE IF RLeq(gap_percentage, gp[2]) THEN "GOOD"
    ELSE IF RLeq(gap_percentage, gp[3]) THEN "MODERATE"
    ELSE IF RLeq(gap_percentage, gp[4]) THEN "HIGH"
    ELSE "CRITICAL"

\* the cut points compared with < instead of <=
classify_need_level_Strict(gap_percentage, total_homeless, gp) ==
    IF total_homeless = 0 THEN "NO_DATA"
    ELSE IF RLt(gap_percentage, gp[1]) THEN "EXCELLENT"
    ELSE IF RLt(gap_percentage, gp[2]) THEN "GOOD"
    ELSE IF RLt(gap_percentage, gp[3]) THEN "MODERATE"
    ELSE IF RLt(gap_percentage, gp[4]) THEN "HIGH"
    ELSE "CRITICAL"

\* the labels GOOD and HIGH exchanged
classify_need_level_Exchanged(gap_percentage, total_homeless, gp) ==
    IF total_homeless = 0 THEN "NO_DATA"
    ELSE IF RLeq(gap_percentage, gp[1]) THEN "EXCELLENT"
    ELSE IF RLeq(gap_percentage, gp[2]) THEN "HIGH"
    ELSE IF RLeq(gap_percentage, gp[3]) THEN "MODERATE"
    ELSE IF RLeq(gap_percentage, gp[4]) THEN "GOOD"
    ELSE "CRITICAL"

classify_need_level(gap_percentage, total_homeless, gp) ==
    IF total_homeless = 0 THEN "NO_DATA"
    ELSE IF RLeq(gap_percentage, gp[1]) THEN "EXCELLENT"
    ELSE IF RLeq(gap_percentage, gp[2]) THEN "GOOD"
    ELSE IF RLeq(gap_percentage, gp[3]) THEN "MODERATE"
    ELSE IF RLeq(gap_percentage, gp[4]) THEN "HIGH"
    ELSE "CRITICAL"

(***************************************************************************)
(* Clustering (lines 1321-1379)                                            *)
(***************************************************************************)
\* np.where(Total_Homeless > 0, Bed_Gap / Total_Homeless, 0)
BedGapRatio(gap, homeless) ==
    IF homeless > 0 THEN Rat(gap, homeless) ELSE Rat(0, 1)

need_level_scores ==
    [l \in NeedLevels |->
        CASE l = "NO_DATA" -> 0
          [] l = "EXCELLENT" -> 1
          [] l = "GOOD" -> 2
          [] l = "MODERATE" -> 3
          [] l = "HIGH" -> 4
          [] l = "CRITICAL" -> 5]

\* Need_Level.map(need_level_scores).fillna(0): a cell that is no key of the
\* dictionary maps to NaN and is filled with 0
ColorNeedScore(cell) ==
    IF cell[1] = "str" /\ cell[2] \in NeedLevels THEN need_level_scores[cell[2]] ELSE 0

\* np.column_stack([Color_Need_Score, Bed_Utilization_Rate, Bed_Gap_Ratio])
ClusterFeatures(score, util, ratio) ==
    [r \in DOMAIN score |-> <<score[r], util[r], ratio[r]>>]

\* the smaller of two numbers
Min(a, b) == IF a <= b THEN a ELSE b

\* StandardScaler().fit_transform and KMeans(n_clusters=3, random_state=42,
\* n_init=10).fit_predict, lines 1355-1359.  Standardising shifts and scales
\* every feature, so equal vectors stay equal and different ones stay
\* different.  Every row gets one label of 0..2; rows with the same vector are
\* at the same distance from every centre and get the same label; with 3 or
\* more different vectors no cluster stays empty, with fewer there are as
\* many clusters as different vectors.  Which of these labellings the library
\* returns is left open.
KMeansLabellings(features) ==
    {lab \in [DOMAIN features -> 0 .. 2] :
        /\ \A r1, r2 \in DOMAIN features :
               features[r1] = features[r2] => lab[r1] = lab[r2]
        /\ Cardinality({lab[r] : r \in DOMAIN features})
               = Min(3, Cardinality({features[r] : r \in DOMAIN features}))}

RECURSIVE SumOver(_, _)
SumOver(f, S) ==
    IF S = {} THEN 0
    ELSE LET x == CHOOSE x \in S : TRUE IN f[x] + SumOver(f, S \ {x})

\* the rows of cluster i
ClusterRows(labels, i) == {r \in DOMAIN labels : labels[r] = i}

\* lines 1363-1368: (i, avg_need_score, len) of every non-empty cluster, i = 0, 1, 2
ClusterStats(labels, score) ==
    LET stat(i) == <<i,
                     Rat(SumOver(score, ClusterRows(labels, i)),
                         Cardinality(ClusterRows(labels, i))),
                     Cardinality(ClusterRows(labels, i))>>
        nonEmpty(i) == ClusterRows(labels, i) # {}
        s0 == IF nonEmpty(0) THEN <<stat(0)>> ELSE <<>>
        s1 == IF nonEmpty(1) THEN <<stat(1)>> ELSE <<>>
        s2 == IF nonEmpty(2) THEN <<stat(2)>> ELSE <<>>
    IN s0 \o s1 \o s2

\* the sort without reverse=True
SortsBefore_Ascending(x, y) == RLt(x[2], y[2])

\* key order of cluster_stats.sort(key=lambda x: x[1], reverse=True):
\* TRUE when x has to come before y
SortsBefore(x, y) == RLt(y[2], x[2])

\* stable insertion of x into a sorted list: behind every element it does
\* not have to come before
RECURSIVE InsertSorted(_, _)
InsertSorted(x, sorted) ==
    IF sorted = <<>> THEN <<x>>
    ELSE IF SortsBefore(x, Head(sorted)) THEN <<x>> \o sorted
    ELSE <<Head(sorted)>> \o InsertSorted(x, Tail(sorted))

\* list.sort is stable, with reverse=True too
RECURSIVE SortStats(_)
SortStats(stats) ==
    IF stats = <<>> THEN <<>>
    ELSE InsertSorted(stats[Len(stats)], SortStats(SubSeq(stats, 1, Len(stats) - 1)))

\* every cluster keeps the label the library gave it
ClusterMapping_Unranked(sortedStats) ==
    [id \in {sortedStats[k][1] : k \in DOMAIN sortedStats} |-> id]

\* {original_id: rank for rank, (original_id, _, _) in enumerate(cluster_stats)},
\* ranks counted from 0
ClusterMapping(sortedStats) ==
    [id \in {sortedStats[k][1] : k \in DOMAIN sortedStats} |->
        (CHOOSE k \in DOMAIN sortedStats : sortedStats[k][1] = id) - 1]

\* correlation_data['Cluster'].map(cluster_mapping)
RankedLabels(labels, score) ==
    LET mapping == ClusterMapping(SortStats(ClusterStats(labels, score)))
    IN [r \in DOMAIN labels |-> PyInt(mapping[labels[r]])]

\* two feature vectors accepted
EnoughForClustering_Two(n) == n >= 2

\* len(cluster_features) >= 3
EnoughForClustering(n) == n >= 3

(***************************************************************************)
(* Step 2: capacity and population classes (lines 1188-1213)               *)
(***************************************************************************)
\* Series.quantile(k/4), interpolation='linear', of a column of counts
Quartile(col, k) ==
    LET n == Len(col)
        values == [r \in DOMAIN col |-> <<col[r], 1>>]
        lo == ((n - 1) * k) \div 4
        r == ((n - 1) * k) % 4
        a == OrderStatistic(values, lo + 1)
        b == OrderStatistic(values, IF lo + 2 <= n THEN lo + 2 ELSE n)
    IN Rat((4 - r) * a[1] * b[2] + r * b[1] * a[2], 4 * a[2] * b[2])

\* quantile([0.25, 0.5, 0.75]).tolist()
Quartiles(col) == [k \in 1 .. 3 |-> Quartile(col, k)]

\* classify_beds_capacity with the median as its first cut point
classify_beds_capacity_Halves(beds, percentiles) ==
    IF beds = 0 THEN "B0"
    ELSE IF RLeq(<<beds, 1>>, percentiles[2]) THEN "B1"
    ELSE IF RLeq(<<beds, 1>>, percentiles[3]) THEN "B2"
    ELSE "B3"

\* lines 1191-1199
classify_beds_capacity(beds, percentiles) ==
    IF beds = 0 THEN "B0"
    ELSE IF RLeq(<<beds, 1>>, percentiles[1]) THEN "B1"
    ELSE IF RLeq(<<beds, 1>>, percentiles[3]) THEN "B2"
    ELSE "B3"

\* lines 1201-1209
classify_homeless_population(homeless, percentiles) ==
    IF homeless = 0 THEN "H0"
    ELSE IF RLeq(<<homeless, 1>>, percentiles[1]) THEN "H1"
    ELSE IF RLeq(<<homeless, 1>>, percentiles[3]) THEN "H2"
    ELSE "H3"

(***************************************************************************)
(* The environment of a call and the fixed seed of KMeans                  *)
(***************************************************************************)
\* nothing is known about the environment: the import of scikit-learn and
\* st.plotly_chart may succeed in one call and raise in the next
AnyEnvironment == [sklearn |-> "any", plot |-> "any"]

\* an environment that stays as it is from one call to the next
FixedEnvironments == [sklearn : {"installed", "missing"}, plot : {"draws", "raises"}]

\* KMeans without random_state: every fit starts from other centres
SeededFit_Unseeded(features, fits) == KMeansLabellings(features)

\* line 1358, KMeans(n_clusters=3, random_state=42, n_init=10): with the seed
\* fixed, fit_predict is a function of the features; what it returned for
\* them before, it returns again
SeededFit(features, fits) ==
    IF \E fit \in fits : fit[1] = features
    THEN {fit[2] : fit \in {fit \in fits : fit[1] = features}}
    ELSE KMeansLabellings(features)

(***************************************************************************)
(* The analysis of one year                                                *)
(***************************************************************************)
NoColumn == <<>>

\* the state when the function is entered for a year of at most maxRows regions
Entered(maxRows) ==
    /\ current_data \in UNION {[1 .. n -> RawRows] : n \in 0 .. maxRows}
    /\ pc = "start"
    /\ Total_Beds = NoColumn
    /\ Total_Homeless = NoColumn
    /\ Sheltered_Homeless = NoColumn
    /\ Bed_Utilization_Rate = NoColumn
    /\ Bed_Gap = NoColumn
    /\ Bed_Gap_Percentage = NoColumn
    /\ gap_percentiles = <<>>
    /\ Need_Level = NoColumn
    /\ Bed_Gap_Ratio = NoColumn
    /\ Color_Need_Score = NoColumn
    /\ Cluster = NoColumn
    /\ cluster_success = "unbound"
    /\ beds_percentiles = <<>>
    /\ homeless_percentiles = <<>>
    /\ Beds_Class = NoColumn
    /\ Homeless_Class = NoColumn
    /\ Correlation_Class = NoColumn
    /\ level_counts = <<>>
    /\ displayed = <<>>
    /\ kmeans_fits = {}
    /\ first_output = <<>>

\* lines 1142-1144: no record of the selected year, warn and return
NoData ==
    /\ pc = "start"
    /\ Len(current_data) = 0
    /\ pc' = "returned"
    /\ displayed' = <<<<"st.warning", "No data found">>>>
    /\ UNCHANGED <<current_data, Total_Beds, Total_Homeless, Sheltered_Homeless,
                   Bed_Utilization_Rate, Bed_Gap, Bed_Gap_Percentage, gap_percentiles,
                   Need_Level, Bed_Gap_Ratio, Color_Need_Score, Cluster, cluster_success>>
    /\ UNCHANGED <<classVars, level_counts, environment, kmeans_fits, first_output>>
    /\ UNCHANGED outsideNeed

\* lines 1146-1184: numeric columns, utilisation rate and bed gap
DeriveMetrics ==
    /\ pc = "start"
    /\ Len(current_data) > 0
    /\ Total_Beds' = [r \in Rows |-> ToNumeric(current_data[r].beds)]
    /\ Total_Homeless' = [r \in Rows |-> ToNumeric(current_data[r].homeless)]
    /\ Sheltered_Homeless' = [r \in Rows |-> ToNumeric(current_data[r].sheltered)]
    /\ Bed_Utilization_Rate' =
           [r \in Rows |-> UtilizationRate(Sheltered_Homeless'[r], Total_Beds'[r])]
    /\ Bed_Gap' = [r \in Rows |-> BedGap(Total_Homeless'[r], Total_Beds'[r])]
    /\ pc' = "metrics"
    /\ UNCHANGED <<current_data, Bed_Gap_Percentage, gap_percentiles, Need_Level,
                   Bed_Gap_Ratio, Color_Need_Score, Cluster, cluster_success>>
    /\ UNCHANGED <<classVars, level_counts, displayed, environment, kmeans_fits,
                   first_output>>
    /\ UNCHANGED outsideNeed

\* lines 1186-1241: capacity and population classes, gap percentage, cut
\* points and need level of every row
ClassifyNeed ==
    /\ pc = "metrics"
    /\ beds_percentiles' = Quartiles(Total_Beds)
    /\ homeless_percentiles' = Quartiles(Total_Homeless)
    /\ Beds_Class' =
           [r \in Rows |-> classify_beds_capacity(Total_Beds[r], beds_percentiles')]
    /\ Homeless_Class' =
           [r \in Rows |->
               classify_homeless_population(Total_Homeless[r], homeless_percentiles')]
    /\ Correlation_Class' = [r \in Rows |-> <<Beds_Class'[r], "-", Homeless_Class'[r]>>]
    /\ Bed_Gap_Percentage' =
           [r \in Rows |-> BedGapPercentage(Bed_Gap[r], Total_Homeless[r])]
    /\ gap_percentiles' = GapPercentiles(Bed_Gap_Percentage')
    /\ Need_Level' =
           [r \in Rows |->
               PyStr(classify_need_level(Bed_Gap_Percentage'[r], Total_Homeless[r],
                                         gap_percentiles'))]
    /\ pc' = "classified"
    /\ UNCHANGED <<current_data, Total_Beds, Total_Homeless, Sheltered_Homeless,
                   Bed_Utilization_Rate, Bed_Gap, Bed_Gap_Ratio, Color_Need_Score,
                   Cluster, cluster_success>>
    /\ UNCHANGED <<level_counts, displayed, environment, kmeans_fits, first_output>>
    /\ UNCHANGED outsideNeed

\* lines 1321-1324 and 1378-1379: scikit-learn cannot be imported, the except
\* clause takes over before any column is added
ClusterUnavailable ==
    /\ pc = "classified"
    /\ environment.sklearn \in {"missing", "any"}
    /\ cluster_success' = "false"
    /\ pc' = "clustered"
    /\ UNCHANGED <<current_data, Total_Beds, Total_Homeless, Sheltered_Homeless,
                   Bed_Utilization_Rate, Bed_Gap, Bed_Gap_Percentage, gap_percentiles,
                   Need_Level, Bed_Gap_Ratio, Color_Need_Score, Cluster>>
    /\ UNCHANGED <<classVars, level_counts, displayed, environment, kmeans_fits,
                   first_output>>
    /\ UNCHANGED outsideNeed

\* lines 1326-1352 and 1375-1376: the features are built, but there are fewer
\* than 3 of them
ClusterTooFew ==
    /\ pc = "classified"
    /\ environment.sklearn \in {"installed", "any"}
    /\ Bed_Gap_Ratio' = [r \in Rows |-> BedGapRatio(Bed_Gap[r], Total_Homeless[r])]
    /\ Color_Need_Score' = [r \in Rows |-> ColorNeedScore(Need_Level[r])]
    /\ ~EnoughForClustering(Len(ClusterFeatures(Color_Need_Score', Bed_Utilization_Rate,
                                                Bed_Gap_Ratio')))
    /\ cluster_success' = "false"
    /\ pc' = "clustered"
    /\ UNCHANGED <<current_data, Total_Beds, Total_Homeless, Sheltered_Homeless,
                   Bed_Utilization_Rate, Bed_Gap, Bed_Gap_Percentage, gap_percentiles,
                   Need_Level, Cluster>>
    /\ UNCHANGED <<classVars, level_counts, displayed, environment, kmeans_fits,
                   first_output>>
    /\ UNCHANGED outsideNeed

\* lines 1326-1374: the features are built, clustered and the clusters ranked
ClusterRanked ==
    /\ pc = "classified"
    /\ environment.sklearn \in {"installed", "any"}
    /\ Bed_Gap_Ratio' = [r \in Rows |-> BedGapRatio(Bed_Gap[r], Total_Homeless[r])]
    /\ Color_Need_Score' = [r \in Rows |-> ColorNeedScore(Need_Level[r])]
    /\ LET cluster_features ==
               ClusterFeatures(Color_Need_Score', Bed_Utilization_Rate, Bed_Gap_Ratio')
       IN /\ EnoughForClustering(Len(cluster_features))
          /\ Cluster' \in SeededFit(cluster_features, kmeans_fits)
          /\ kmeans_fits' = kmeans_fits \cup {<<cluster_features, Cluster'>>}
    /\ Need_Level' = RankedLabels(Cluster', Color_Need_Score')
    /\ cluster_success' = "true"
    /\ pc' = "clustered"
    /\ UNCHANGED <<current_data, Total_Beds, Total_Homeless, Sheltered_Homeless,
                   Bed_Utilization_Rate, Bed_Gap, Bed_Gap_Percentage, gap_percentiles>>
    /\ UNCHANGED <<classVars, level_counts, displayed, environment, first_output>>
    /\ UNCHANGED outsideNeed

(***************************************************************************)
(* run, create_summary_metrics and get_yoy_change                          *)
(*                                                                         *)
(* self.gdf is modelled by one indicator column: a function from the pairs *)
(* (Year, CoC Number) to the cell of that column, <<v>>, or to <<>> when   *)
(* the data set has no record of that region in that year.  The cards read *)
(* the selected year and the year before it only, so the data set of the   *)
(* summary model holds these two years.                                    *)
(***************************************************************************)
\* largest value of a cell of the indicator column
MaxCount == 2

\* line 592: the first year of the data
FirstYear == 2007
\* lines 727-733, 743, 766: the year of the irregular count
EstimatedYear == 2021

CoCs == {"AK-500", "AL-501"}
StateOf == [c \in CoCs |-> IF c = "AK-500" THEN "AK" ELSE "AL"]
CategoryOf == [c \in CoCs |-> IF c = "AK-500" THEN "Rural CoCs" ELSE "Major Cities"]
SummaryYears == {FirstYear, FirstYear + 1, EstimatedYear, EstimatedYear + 1}

NoRecord == <<>>
IndicatorCells == {<<v>> : v \in 0 .. MaxCount} \cup {NoRecord}

\* a local that is not bound yet
Unbound == <<>>

\* gdf[gdf['Year'] == year]: the regions with a record of the year
YearRecords(gdf, year) ==
    {c \in CoCs : <<year, c>> \in DOMAIN gdf /\ gdf[<<year, c>>] # NoRecord}

\* the values of the indicator column of the whole data set
IndicatorValues(gdf) == {gdf[k][1] : k \in {k \in DOMAIN gdf : gdf[k] # NoRecord}}

SetMin(S) == CHOOSE x \in S : \A y \in S : x <= y
SetMax(S) == CHOOSE x \in S : \A y \in S : y <= x

\* lines 2162-2174: the slider exists only when max_val > min_val, and then
\* returns a range inside [min_val, max_val]
SliderRanges(gdf) ==
    LET values == IndicatorValues(gdf)
    IN IF values = {} \/ ~(SetMax(values) > SetMin(values)) THEN {Unbound}
       ELSE {range \in (SetMin(values) .. SetMax(values))
                            \X (SetMin(values) .. SetMax(values)) :
                   range[1] <= range[2]}

\* isin(selection) without 'if selection:'
Isin_Always(value, selection) == value \in selection

\* lines 2183-2187, 600-603: 'if selection:' then isin(selection)
Isin(value, selection) == selection = {} \/ value \in selection

\* lines 2189-2193: the value range, when the local exists
InRange(v, range) == range = Unbound \/ (v >= range[1] /\ v <= range[2])

\* lines 2177-2193: gdf_filtered
FilteredRows(gdf, year, states, categories, range) ==
    LET kept == {c \in YearRecords(gdf, year) :
                    /\ Isin(StateOf[c], states)
                    /\ Isin(CategoryOf[c], categories)
                    /\ InRange(gdf[<<year, c>>][1], range)}
    IN [c \in kept |-> gdf[<<year, c>>][1]]

\* prev_data joined with the regions of the current year
PrevData_Joined(gdf, prev_year, states, categories) ==
    {c \in YearRecords(gdf, prev_year) :
        /\ Isin(StateOf[c], states)
        /\ Isin(CategoryOf[c], categories)
        /\ c \in YearRecords(gdf, prev_year + 1)}

\* lines 597-603: prev_data, the regions of the prior year the two selections keep
PrevData(gdf, prev_year, states, categories) ==
    {c \in YearRecords(gdf, prev_year) :
        /\ Isin(StateOf[c], states)
        /\ Isin(CategoryOf[c], categories)}

\* line 606: prev_data[indicator].sum()
PrevTotal(gdf, prev_year, rows) ==
    SumOver([c \in rows |-> gdf[<<prev_year, c>>][1]], rows)

\* the size of the change, without its sign
ChangePct_Unsigned(cur, prev) == Rat(Abs(cur - prev) * 100, prev)

\* line 609: ((current_val - prev_val) / prev_val) * 100
ChangePct(cur, prev) == Rat((cur - prev) * 100, prev)

\* line 611, format '+.1f': the signed number of tenths that is printed, the
\* nearest one, and the even one when two are equally near
FormatTenths(q) ==
    LET n == 10 * q[1]
        d == q[2]
        lower == n \div d
        rest == n % d
    IN IF 2 * rest < d THEN lower
       ELSE IF 2 * rest > d THEN lower + 1
       ELSE IF lower % 2 = 0 THEN lower ELSE lower + 1

\* the three texts get_yoy_change returns
NoText == <<"">>
NotAvailable == <<"N/A", "#64748b">>
ChangeText(q) == <<"%", IF q[1] >= 0 THEN "#09ab3b" ELSE "#dc2626", FormatTenths(q)>>

\* get_yoy_change with a capped value in place of 'N/A'
get_yoy_change_Sentinel(year, cur, gdf, states, categories) ==
    LET prev_data == PrevData(gdf, year - 1, states, categories)
        prev == PrevTotal(gdf, year - 1, prev_data)
    IN IF year <= FirstYear
       THEN [prev_val |-> Unbound, change_pct |-> Unbound, text |-> NoText]
       ELSE IF prev_data # {} /\ prev > 0
       THEN [prev_val |-> <<prev>>, change_pct |-> <<ChangePct(cur, prev)>>,
             text |-> ChangeText(ChangePct(cur, prev))]
       ELSE LET capped == IF cur > 0 THEN Rat(999, 1) ELSE Rat(0, 1)
            IN [prev_val |-> <<prev>>, change_pct |-> <<capped>>,
                text |-> ChangeText(capped)]

\* lines 591-614: the locals and the text of one call, no statement raising
get_yoy_change(year, cur, gdf, states, categories) ==
    LET prev_data == PrevData(gdf, year - 1, states, categories)
        prev == PrevTotal(gdf, year - 1, prev_data)
    IN IF year <= FirstYear
       THEN [prev_val |-> Unbound, change_pct |-> Unbound, text |-> NoText]
       ELSE IF prev_data = {}
       THEN [prev_val |-> Unbound, change_pct |-> Unbound, text |-> NotAvailable]
       ELSE IF prev > 0
       THEN [prev_val |-> <<prev>>, change_pct |-> <<ChangePct(cur, prev)>>,
             text |-> ChangeText(ChangePct(cur, prev))]
       ELSE [prev_val |-> <<prev>>, change_pct |-> Unbound, text |-> NotAvailable]

\* lines 613-614: 'except:' without a class catches whatever is raised
BareExcept(exception) == "caught"

\* run has not been started
SummaryIdle ==
    /\ gdf_filtered = Unbound
    /\ summary_pc = "idle"
    /\ current_year = Unbound
    /\ current_val = Unbound
    /\ prev_val = Unbound
    /\ change_pct = Unbound
    /\ yoy_change = Unbound

\* run, line 2176 reached: a data set of the selected year and the year
\* before it, and the selection made in the sidebar
SummaryEntered ==
    /\ selected_year \in SummaryYears
    /\ self_gdf \in [{selected_year - 1, selected_year} \X CoCs -> IndicatorCells]
    /\ selected_states \in {{}, {"AK"}}
    /\ selected_categories \in {{}, {"Major Cities"}}
    /\ value_range \in SliderRanges(self_gdf)
    /\ gdf_filtered = Unbound
    /\ summary_pc = "run"
    /\ current_year = Unbound
    /\ current_val = Unbound
    /\ prev_val = Unbound
    /\ change_pct = Unbound
    /\ yoy_change = Unbound

\* lines 2176-2198: no row is left, warn and return
NoMatch ==
    /\ summary_pc = "run"
    /\ gdf_filtered' = FilteredRows(self_gdf, selected_year, selected_states,
                                    selected_categories, value_range)
    /\ DOMAIN gdf_filtered' = {}
    /\ summary_pc' = "no_match"
    /\ UNCHANGED <<current_year, current_val, prev_val, change_pct, yoy_change, invoked>>
    /\ UNCHANGED outsideSummary

\* lines 2176-2206: the rows of the year are filtered and handed on
FilterRows ==
    /\ summary_pc = "run"
    /\ gdf_filtered' = FilteredRows(self_gdf, selected_year, selected_states,
                                    selected_categories, value_range)
    /\ DOMAIN gdf_filtered' # {}
    /\ summary_pc' = "filtered"
    /\ UNCHANGED <<current_year, current_val, prev_val, change_pct, yoy_change, invoked>>
    /\ UNCHANGED outsideSummary

\* lines 569-622: the total of the card and its year-over-year change, with
\* self._current_filter_states and self._current_filter_categories (2180-2181)
SummaryCard ==
    /\ summary_pc = "filtered"
    /\ current_year' = <<selected_year>>
    /\ current_val' = <<SumOver(gdf_filtered, DOMAIN gdf_filtered)>>
    /\ LET call == get_yoy_change(selected_year, current_val'[1], self_gdf,
                                  selected_states, selected_categories)
       IN /\ prev_val' = call.prev_val
          /\ change_pct' = call.change_pct
          /\ yoy_change' = call.text
    /\ summary_pc' = "shown"
    /\ invoked' = Append(invoked, <<"create_summary_metrics", gdf_filtered>>)
    /\ UNCHANGED gdf_filtered
    /\ UNCHANGED outsideSummary

\* lines 595-614: a statement of the try block raises, the except clause
\* returns the grey N/A
SummaryCardRaised ==
    /\ summary_pc = "filtered"
    /\ selected_year > FirstYear
    /\ current_year' = <<selected_year>>
    /\ current_val' = <<SumOver(gdf_filtered, DOMAIN gdf_filtered)>>
    /\ \E exception \in {"KeyError", "ZeroDivisionError", "MemoryError"} :
           /\ summary_pc' = BareExcept(exception)
           /\ yoy_change' = IF summary_pc' = "caught" THEN NotAvailable ELSE Unbound
    /\ invoked' = Append(invoked, <<"create_summary_metrics", gdf_filtered>>)
    /\ UNCHANGED <<gdf_filtered, prev_val, change_pct>>
    /\ UNCHANGED outsideSummary

(***************************************************************************)
(* create_trend_analysis                                                   *)
(***************************************************************************)
TrendYears == EstimatedYear - 2 .. EstimatedYear + 2
TrendCoCs == {"AL-501"}

\* lines 719-724: the years that are left after the state selection
\* ('len(selected_states) == 0' keeps every row)
GroupYears(gdf, states) ==
    {k[1] : k \in {k \in DOMAIN gdf : /\ gdf[k] # NoRecord
                                       /\ Isin(StateOf[k[2]], states)}}

\* lines 719-724: groupby('Year')[selected_indicator].sum() of one year
GroupSum(gdf, states, year) ==
    LET rows == {c \in YearRecords(gdf, year) : Isin(StateOf[c], states)}
    IN SumOver([c \in rows |-> gdf[<<year, c>>][1]], rows)

\* groupby sorts the group keys: the years in ascending order
RECURSIVE Ascending(_)
Ascending(S) ==
    IF S = {} THEN <<>>
    ELSE <<SetMin(S)>> \o Ascending(S \ {SetMin(S)})

\* lines 719-724: trend_data
GroupByYear(gdf, states) ==
    LET years == Ascending(GroupYears(gdf, states))
    IN [i \in 1 .. Len(years) |->
           [Year |-> years[i], value |-> Rat(GroupSum(gdf, states, years[i]), 1)]]

\* trend_data[trend_data['Year'] == year][selected_indicator].values
ValuesOf(trend, year) ==
    LET rows == {i \in 1 .. Len(trend) : trend[i].Year = year}
    IN [i \in 1 .. Cardinality(rows) |->
           trend[CHOOSE j \in rows : Cardinality({k \in rows : k < j}) = i - 1].value]

\* half of the 2020 value alone
AvgValue_Halved(a, b) == Rat(a[1] * b[2], 2 * a[2] * b[2])

\* line 732: (year_2020_value[0] + year_2022_value[0]) / 2
AvgValue(a, b) == Rat(a[1] * b[2] + b[1] * a[2], 2 * a[2] * b[2])

\* lines 727-733: the value of 2021 becomes the average of 2020 and 2022
\* when the three years are present
Estimate2021(trend) ==
    LET year_2020_value == ValuesOf(trend, EstimatedYear - 1)
        year_2022_value == ValuesOf(trend, EstimatedYear + 1)
    IN IF /\ \E i \in 1 .. Len(trend) : trend[i].Year = EstimatedYear
          /\ Len(year_2020_value) > 0
          /\ Len(year_2022_value) > 0
       THEN [i \in 1 .. Len(trend) |->
                IF trend[i].Year = EstimatedYear
                THEN [Year |-> EstimatedYear,
                      value |-> AvgValue(year_2020_value[1], year_2022_value[1])]
                ELSE trend[i]]
       ELSE trend

\* lines 743-750: the dash of the line between two neighbouring rows
LineDash(year, next_year) ==
    IF \/ (year = EstimatedYear - 1 /\ next_year = EstimatedYear)
       \/ (year = EstimatedYear /\ next_year = EstimatedYear + 1)
    THEN "dash" ELSE "solid"

\* lines 766-799: the name of the marker trace of a year
MarkerName(year) == IF year = EstimatedYear THEN "2021 (Estimated)" ELSE ""

\* create_trend_analysis has not been called
TrendIdle ==
    /\ trend_pc = "idle"
    /\ trend_data = Unbound
    /\ trend_lines = Unbound
    /\ trend_markers = Unbound

\* run, line 2280: create_trend_analysis(self.gdf, selected_states, ...)
TrendEntered ==
    /\ self_gdf \in [TrendYears \X TrendCoCs -> IndicatorCells]
    /\ selected_states \in {{}, {"AL"}, {"AK"}}
    /\ trend_pc = "called"
    /\ trend_data = Unbound
    /\ trend_lines = Unbound
    /\ trend_markers = Unbound

\* lines 719-724
TrendGroup ==
    /\ trend_pc = "called"
    /\ trend_data' = GroupByYear(self_gdf, selected_states)
    /\ trend_pc' = "grouped"
    /\ UNCHANGED <<trend_lines, trend_markers>>
    /\ UNCHANGED outsideTrend

\* as if groupby(...).sum().reset_index() gave a view of the rows of gdf
SharesRows_GroupedView(derivation) == derivation \in {"argument", "groupby"}

\* does a frame share its rows with the frame it was derived from: an
\* argument is the caller's object itself (lines 2267, 2280); a selection
\* by a boolean mask, .copy() (lines 598, 1140, 1147, 2177) and
\* groupby(...).sum().reset_index() (lines 720, 723) build a new frame
SharesRows(derivation) == derivation = "argument"

\* line 733, trend_data.loc[trend_data['Year'] == 2021, ...] = avg_value:
\* what the assignment leaves of the data set the function was called with
AfterEstimate(gdf, before, after) ==
    IF SharesRows("groupby") /\ after # before
    THEN LET avg_value == ValuesOf(after, EstimatedYear)[1]
         IN [k \in DOMAIN gdf |->
                IF k[1] = EstimatedYear /\ gdf[k] # NoRecord
                THEN <<avg_value[1] \div avg_value[2]>> ELSE gdf[k]]
    ELSE gdf

\* lines 726-733
TrendEstimate ==
    /\ trend_pc = "grouped"
    /\ trend_data' = Estimate2021(trend_data)
    /\ self_gdf' = AfterEstimate(self_gdf, trend_data, trend_data')
    /\ trend_pc' = "estimated"
    /\ UNCHANGED <<trend_lines, trend_markers>>
    /\ UNCHANGED <<selected_year, selected_states, selected_categories, value_range>>
    /\ UNCHANGED <<needVars, summaryVars, runVars, invoked, timelineVars>>

\* lines 735-800: one line trace for every pair of neighbouring rows, one
\* marker trace for every row
TrendDraw ==
    /\ trend_pc = "estimated"
    /\ trend_lines' =
           [i \in 1 .. Len(trend_data) - 1 |->
               [x |-> <<trend_data[i].Year, trend_data[i + 1].Year>>,
                y |-> <<trend_data[i].value, trend_data[i + 1].value>>,
                dash |-> LineDash(trend_data[i].Year, trend_data[i + 1].Year)]]
    /\ trend_markers' =
           [i \in 1 .. Len(trend_data) |->
               [x |-> trend_data[i].Year, y |-> trend_data[i].value,
                name |-> MarkerName(trend_data[i].Year)]]
    /\ trend_pc' = "drawn"
    /\ UNCHANGED trend_data
    /\ UNCHANGED outsideTrend

(***************************************************************************)
(* Calls of the need analysis for the years of a data set                  *)
(*                                                                         *)
(* Here self.gdf maps (Year, CoC Number) to <<row>>, the three count cells *)
(* of the record, or to <<>> when the region has no record in the year.    *)
(***************************************************************************)
\* line 2128: the latest year of the data
LatestYear == 2024
NeedYears == {LatestYear - 1, LatestYear}

\* the regions of the sample data set, in the order of their rows
NeedCoCs == <<"AK-500", "AL-501", "AZ-502">>

\* the rows a region can have in a year
YearRows ==
    {[homeless |-> <<1>>, beds |-> <<0>>, sheltered |-> <<1>>],
     [homeless |-> <<1>>, beds |-> <<2>>, sheltered |-> <<1>>]}
YearCells == {<<row>> : row \in YearRows} \cup {NoRecord}

\* the records of all years, the year filter left out
CurrentData_AllYears(gdf, year) ==
    LET keys == {k \in DOMAIN gdf : gdf[k] # NoRecord}
        Before(k, m) ==
            \/ k[1] < m[1]
            \/ /\ k[1] = m[1]
               /\ \E i, j \in DOMAIN NeedCoCs : NeedCoCs[i] = k[2] /\ NeedCoCs[j] = m[2] /\ i < j
    IN [i \in 1 .. Cardinality(keys) |->
           gdf[CHOOSE k \in keys : Cardinality({m \in keys : Before(m, k)}) = i - 1][1]]

\* line 1140: _gdf[_gdf['Year'] == selected_year]
CurrentData(gdf, year) ==
    LET Present(c) == <<year, c>> \in DOMAIN gdf /\ gdf[<<year, c>>] # NoRecord
        present == SelectSeq(NeedCoCs, Present)
    IN [i \in 1 .. Len(present) |-> gdf[<<year, present[i]>>][1]]

\* lines 1142-1241 as a function of current_data: the cut points and the
\* need levels
AnalyseRows(data) ==
    LET beds == [r \in DOMAIN data |-> ToNumeric(data[r].beds)]
        homeless == [r \in DOMAIN data |-> ToNumeric(data[r].homeless)]
        percentage ==
            [r \in DOMAIN data |->
                BedGapPercentage(BedGap(homeless[r], beds[r]), homeless[r])]
    IN IF Len(data) = 0
       THEN [gap_percentiles |-> <<>>, Need_Level |-> NoColumn]
       ELSE [gap_percentiles |-> GapPercentiles(percentage),
             Need_Level |->
                 [r \in DOMAIN data |->
                     PyStr(classify_need_level(percentage[r], homeless[r],
                                               GapPercentiles(percentage)))]]

\* lines 1140-1241 as a function of the arguments of the call
AnalyseYear(gdf, year) == AnalyseRows(CurrentData(gdf, year))

\* the columns and locals of a call that has just begun: nothing is bound
FreshLocals ==
    /\ Total_Beds' = NoColumn
    /\ Total_Homeless' = NoColumn
    /\ Sheltered_Homeless' = NoColumn
    /\ Bed_Utilization_Rate' = NoColumn
    /\ Bed_Gap' = NoColumn
    /\ Bed_Gap_Percentage' = NoColumn
    /\ gap_percentiles' = <<>>
    /\ Need_Level' = NoColumn
    /\ Bed_Gap_Ratio' = NoColumn
    /\ Color_Need_Score' = NoColumn
    /\ Cluster' = NoColumn
    /\ cluster_success' = "unbound"
    /\ beds_percentiles' = <<>>
    /\ homeless_percentiles' = <<>>
    /\ Beds_Class' = NoColumn
    /\ Homeless_Class' = NoColumn
    /\ Correlation_Class' = NoColumn
    /\ level_counts' = <<>>
    /\ displayed' = <<>>

\* a call that has just begun
FreshCall ==
    /\ current_data' = <<>>
    /\ FreshLocals

\* run, line 2267: the call for the selected year of a data set of two years
Called ==
    /\ self_gdf \in [NeedYears \X {NeedCoCs[i] : i \in DOMAIN NeedCoCs} -> YearCells]
    /\ selected_year \in NeedYears
    /\ selected_states = {}
    /\ selected_categories = {}
    /\ value_range = Unbound
    /\ current_data = <<>>
    /\ pc = "called"
    /\ Total_Beds = NoColumn
    /\ Total_Homeless = NoColumn
    /\ Sheltered_Homeless = NoColumn
    /\ Bed_Utilization_Rate = NoColumn
    /\ Bed_Gap = NoColumn
    /\ Bed_Gap_Percentage = NoColumn
    /\ gap_percentiles = <<>>
    /\ Need_Level = NoColumn
    /\ Bed_Gap_Ratio = NoColumn
    /\ Color_Need_Score = NoColumn
    /\ Cluster = NoColumn
    /\ cluster_success = "unbound"
    /\ beds_percentiles = <<>>
    /\ homeless_percentiles = <<>>
    /\ Beds_Class = NoColumn
    /\ Homeless_Class = NoColumn
    /\ Correlation_Class = NoColumn
    /\ level_counts = <<>>
    /\ displayed = <<>>
    /\ kmeans_fits = {}
    /\ first_output = <<>>

\* line 1140: the records of the selected year are copied
SelectYear ==
    /\ pc = "called"
    /\ current_data' = CurrentData(self_gdf, selected_year)
    /\ pc' = "start"
    /\ UNCHANGED <<Total_Beds, Total_Homeless, Sheltered_Homeless, Bed_Utilization_Rate,
                   Bed_Gap, Bed_Gap_Percentage, gap_percentiles, Need_Level,
                   Bed_Gap_Ratio, Color_Need_Score, Cluster, cluster_success>>
    /\ UNCHANGED <<classVars, level_counts, displayed, environment, kmeans_fits,
                   first_output>>
    /\ UNCHANGED outsideNeed

\* run, lines 2123-2131 and 2267: the script runs again with a year picked
\* in the sidebar, and calls the analysis anew
CallAgain ==
    /\ pc \in {"returned", "clustered"}
    /\ selected_year' \in NeedYears
    /\ FreshCall
    /\ pc' = "called"
    /\ UNCHANGED <<environment, kmeans_fits, first_output>>
    /\ UNCHANGED <<self_gdf, selected_states, selected_categories, value_range>>
    /\ UNCHANGED <<summaryVars, trendVars, runVars, invoked, timelineVars>>

(***************************************************************************)
(* The end of the need analysis (lines 1380-1699) and a second call        *)
(***************************************************************************)
\* the rows of the years that are analysed twice
RepeatRows ==
    {[homeless |-> <<1>>, beds |-> <<0>>, sheltered |-> <<1>>],
     [homeless |-> <<2>>, beds |-> <<1>>, sheltered |-> <<1>>],
     [homeless |-> <<0>>, beds |-> <<1>>, sheltered |-> <<1>>],
     [homeless |-> <<0>>, beds |-> <<2>>, sheltered |-> <<1>>],
     [homeless |-> MissingCell, beds |-> MissingCell, sheltered |-> MissingCell]}

\* lines 1436-1442: level_counts.get(level, 0) for the six levels
LevelCounts(levels) ==
    [level \in NeedLevels |-> Cardinality({r \in DOMAIN levels : levels[r] = PyStr(level)})]

\* the names that are bound when line 1529 is reached: the locals assigned
\* on the way and the globals of the module (lines 1-9)
NamesAtLegend ==
    {"st", "gpd", "pd", "px", "go", "np", "json", "warnings", "self", "selected_year",
     "current_data", "correlation_data", "beds_percentiles", "homeless_percentiles",
     "gap_percentiles", "need_colors", "centroids", "lats", "lons", "hover_text", "fig",
     "cluster_success", "level_counts", "plot_error", "simple_fig", "col1", "col2",
     "legend_table_data", "need_level_mapping"}

\* line 1579: datetime.now(), two of its values
ClockTimes == {"2024-01-01 00:00:00", "2024-01-01 00:00:01"}
\* line 1580: random.randint(1000, 9999), unseeded, its two extreme values
AnalysisIds == {"COR-1000", "COR-9999"}

\* the classes 'except Exception' catches
ExceptionClasses == {"NameError", "KeyError", "ValueError", "ImportError"}

\* a handler 'except KeyError' in place of 'except Exception'
OuterHandler_KeyErrorOnly(exception) ==
    IF exception = "KeyError" THEN "error_reported" ELSE "escaped"

\* lines 1127 and 1698-1699: where an exception raised inside the try block
\* ends
OuterHandler(exception) ==
    IF exception \in ExceptionClasses THEN "error_reported" ELSE "escaped"

\* lines 1380-1455: the figure layout, the expander with the distribution
\* statistics and the legend line
ShowLegend ==
    /\ pc = "clustered"
    /\ level_counts' = LevelCounts(Need_Level)
    /\ displayed' = displayed \o <<<<"st.expander", "Adaptive Classification System Details">>,
                                   <<"st.markdown", "Map Legend">>>>
    /\ pc' = "legend"
    /\ UNCHANGED <<current_data, Total_Beds, Total_Homeless, Sheltered_Homeless,
                   Bed_Utilization_Rate, Bed_Gap, Bed_Gap_Percentage, gap_percentiles,
                   Need_Level, Bed_Gap_Ratio, Color_Need_Score, Cluster, cluster_success>>
    /\ UNCHANGED <<classVars, environment, kmeans_fits, first_output>>
    /\ UNCHANGED outsideNeed

\* lines 1458-1459: the map is drawn
PlotChart ==
    /\ pc = "legend"
    /\ environment.plot \in {"draws", "any"}
    /\ displayed' = Append(displayed, <<"st.plotly_chart", "fig">>)
    /\ pc' = "done"
    /\ UNCHANGED <<current_data, Total_Beds, Total_Homeless, Sheltered_Homeless,
                   Bed_Utilization_Rate, Bed_Gap, Bed_Gap_Percentage, gap_percentiles,
                   Need_Level, Bed_Gap_Ratio, Color_Need_Score, Cluster, cluster_success>>
    /\ UNCHANGED <<classVars, level_counts, environment, kmeans_fits, first_output>>
    /\ UNCHANGED outsideNeed

\* lines 1460-1699: st.plotly_chart raises; the except clause warns, draws
\* the simple figure and writes the legend up to the loop of line 1529.  If
\* correlation_colors were bound there, the statistics of lines 1556-1696
\* would follow, the clock and the random id of lines 1576-1582 among them;
\* it is bound nowhere, so line 1529 raises NameError, which the handler of
\* line 1698 reports.
PlotFallback ==
    /\ pc = "legend"
    /\ environment.plot \in {"raises", "any"}
    /\ \E current_time \in ClockTimes, analysis_id \in AnalysisIds :
           LET fallback ==
                   displayed \o <<<<"st.warning", "map rendering problem">>,
                                  <<"st.plotly_chart", "simple_fig">>,
                                  <<"st.subheader", "Correlation Legend">>>>
           IN IF "correlation_colors" \in NamesAtLegend
              THEN /\ displayed' = fallback \o <<<<"st.write", "Analysis Time", current_time>>,
                                                 <<"st.write", "Analysis ID", analysis_id>>>>
                   /\ pc' = "done"
              ELSE /\ pc' = OuterHandler("NameError")
                   /\ displayed' =
                          IF pc' = "error_reported"
                          THEN Append(fallback, <<"st.error", "NameError: correlation_colors">>)
                          ELSE fallback
    /\ UNCHANGED <<current_data, Total_Beds, Total_Homeless, Sheltered_Homeless,
                   Bed_Utilization_Rate, Bed_Gap, Bed_Gap_Percentage, gap_percentiles,
                   Need_Level, Bed_Gap_Ratio, Color_Need_Score, Cluster, cluster_success>>
    /\ UNCHANGED <<classVars, level_counts, environment, kmeans_fits, first_output>>
    /\ UNCHANGED outsideNeed

\* what a call has produced: the derived metrics, the cut points, the
\* classes, the need levels (ranked labels after a clustering), the counts
\* and what is on the page
Output ==
    [Total_Beds |-> Total_Beds, Total_Homeless |-> Total_Homeless,
     Sheltered_Homeless |-> Sheltered_Homeless,
     Bed_Utilization_Rate |-> Bed_Utilization_Rate, Bed_Gap |-> Bed_Gap,
     Bed_Gap_Percentage |-> Bed_Gap_Percentage, gap_percentiles |-> gap_percentiles,
     Correlation_Class |-> Correlation_Class, Need_Level |-> Need_Level,
     Bed_Gap_Ratio |-> Bed_Gap_Ratio, Color_Need_Score |-> Color_Need_Score,
     cluster_success |-> cluster_success, level_counts |-> level_counts,
     displayed |-> displayed]

\* run, line 2267: the script runs again with the same data set and the same
\* year; the first output is kept for comparison
SecondCall ==
    /\ pc \in {"returned", "done", "error_reported"}
    /\ first_output = <<>>
    /\ first_output' = <<Output>>
    /\ FreshLocals
    /\ pc' = "start"
    /\ UNCHANGED <<current_data, environment, kmeans_fits>>
    /\ UNCHANGED outsideNeed

(***************************************************************************)
(* The timeline controls of the sidebar (lines 2004-2076, 2123-2131)       *)
(*                                                                         *)
(* Streamlit runs the script from the top whenever a widget changes; in    *)
(* one run at most one button returns True.  A widget that the user did    *)
(* not touch returns the value it was created with: the slider returns     *)
(* its argument value=current_year.                                        *)
(***************************************************************************)
\* line 417: the flag of a session that has not selected a year yet
FirstRunFlag == 999

\* line 2124: sorted(self.gdf['Year'].unique())
YearsOf(gdf) == Ascending({k[1] : k \in {k \in DOMAIN gdf : gdf[k] # NoRecord}})

\* the elements of a list
Elements(list) == {list[i] : i \in DOMAIN list}

\* Python list[i]: counted from 0, a negative index counts from the end
PyIndex(list, i) ==
    IF i >= 0 /\ i < Len(list) THEN <<"ok", list[i + 1]>>
    ELSE IF i < 0 /\ i >= -Len(list) THEN <<"ok", list[Len(list) + i + 1]>>
    ELSE <<"IndexError">>

\* Python list.index(value): the first position, counted from 0
ListIndex(list, value) ==
    IF value \in Elements(list)
    THEN <<"ok", (CHOOSE i \in DOMAIN list :
                     list[i] = value /\ \A j \in DOMAIN list : list[j] = value => i <= j) - 1>>
    ELSE <<"ValueError">>

\* the first year of the list in place of the latest
InitialIndex_First(index, n) == IF index >= n \/ index < 0 THEN 0 ELSE index

\* lines 2127-2128
InitialIndex(index, n) == IF index >= n \/ index < 0 THEN n - 1 ELSE index

\* lines 2009-2012
ClampIndex(index, n) ==
    IF index >= n THEN n - 1 ELSE IF index < 0 THEN 0 ELSE index

\* Prev without its guard
PrevIndex_Unguarded(index) == index - 1

\* lines 2045-2046
PrevIndex(index) == IF index > 0 THEN index - 1 ELSE index

\* lines 2051-2052
NextIndex(index, n) == IF index < n - 1 THEN index + 1 ELSE index

\* the widgets of the timeline; "none" is a run started by anything else
Events == {"none", "go", "prev", "next", "slider", "reset"}

\* lines 13-25: st.rerun() stops the run and schedules the next one; without
\* it (a version that has neither rerun function, or an exception that is
\* swallowed) the run goes on
SafeRerun == {"rerun", "goes on"}

\* min_value=years[0], max_value=years[-1], step=1
YearRange(years) == years[1] .. years[Len(years)]

\* lines 2004-2076 for one run: the index the session is left with, the
\* locals, and how the function ended
create_sidebar_timeline_controls(years, index, widget, requested, rerun) ==
    LET n == Len(years)
        clamped == ClampIndex(index, n)
        current == PyIndex(years, clamped)
        shown == IF current[1] = "ok" THEN <<current[2]>> ELSE Unbound
        Raise(exception, at, slider) ==
            [index |-> at, current_year |-> shown, slider |-> slider,
             subscripts |-> <<clamped>>, error |-> FALSE,
             ended |-> "raised", returned |-> <<exception>>]
        Rerun(at) ==
            [index |-> at, current_year |-> shown, slider |-> Unbound,
             subscripts |-> <<clamped>>, error |-> FALSE,
             ended |-> "rerun", returned |-> Unbound]
        Return(at, error) ==
            LET year == PyIndex(years, at)
            IN [index |-> at, current_year |-> shown,
                slider |-> IF widget = "slider" THEN <<requested>> ELSE shown,
                subscripts |-> <<clamped, at>>, error |-> error,
                ended |-> IF year[1] = "ok" THEN "returned" ELSE "raised",
                returned |-> IF year[1] = "ok" THEN <<year[2]>> ELSE <<year[1]>>]
        Moved(at) == IF rerun = "rerun" THEN Rerun(at) ELSE Return(at, FALSE)
    IN IF current[1] # "ok" THEN
           [index |-> clamped, current_year |-> shown, slider |-> Unbound,
            subscripts |-> <<clamped>>, error |-> FALSE,
            ended |-> "raised", returned |-> <<current[1]>>]
       ELSE CASE widget = "go" ->
                   IF requested \in Elements(years)
                   THEN Moved(ListIndex(years, requested)[2])
                   ELSE Return(clamped, TRUE)
              [] widget = "prev" -> Moved(PrevIndex(clamped))
              [] widget = "next" -> Moved(NextIndex(clamped, n))
              [] widget = "slider" ->
                   IF requested # current[2]
                   THEN LET position == ListIndex(years, requested)
                        IN IF position[1] = "ok"
                           THEN Return(position[2], FALSE)
                           ELSE Raise(position[1], clamped, <<requested>>)
                   ELSE Return(clamped, FALSE)
              [] widget = "reset" -> Moved(n - 1)
              [] OTHER -> Return(clamped, FALSE)

\* the timeline controls have not been created
TimelineIdle ==
    /\ current_year_index = FirstRunFlag
    /\ event = "none"
    /\ year_input = Unbound
    /\ slider_year = Unbound
    /\ controls_current_year = Unbound
    /\ subscripts = <<>>
    /\ sidebar_error = FALSE

\* an analysis is looked at on its own, outside a run of the script
OutsideRun ==
    /\ loaded_gdf = self_gdf
    /\ run_pc = "idle"
    /\ invoked = <<>>
    /\ raised = <<>>
    /\ TimelineIdle

\* the locals of the analyses at the start of a run of the script: none
\* of them is bound
NewRunLocals ==
    /\ FreshCall
    /\ pc' = "idle"
    /\ selected_states' = {}
    /\ selected_categories' = {}
    /\ value_range' = Unbound
    /\ gdf_filtered' = Unbound
    /\ summary_pc' = "idle"
    /\ current_year' = Unbound
    /\ current_val' = Unbound
    /\ prev_val' = Unbound
    /\ change_pct' = Unbound
    /\ yoy_change' = Unbound
    /\ trend_pc' = "idle"
    /\ trend_data' = Unbound
    /\ trend_lines' = Unbound
    /\ trend_markers' = Unbound
    /\ invoked' = <<>>

\* the run of the script is over, or it has only created the timeline
\* controls so far and is stopped by the next change of a widget
RunOver ==
    \/ run_pc \in {"loaded", "rerun", "raised", "controls_returned", "ended"}
    \/ run_pc = "filters" /\ summary_pc = "no_match"

\* lines 2102-2131 and 2004-2076: a run of the script begins (a widget has
\* changed, or the run before asked for it) and creates the timeline
\* controls.  Before the first run there is no widget to touch.
Timeline ==
    /\ RunOver
    /\ LET years == YearsOf(self_gdf)
       IN \E widget \in Events, rerun \in SafeRerun :
          \E requested \in IF widget \in {"go", "slider"} THEN YearRange(years)
                           ELSE {years[1]} :
             LET call == create_sidebar_timeline_controls(
                             years, InitialIndex(current_year_index, Len(years)),
                             widget, requested, rerun)
             IN /\ run_pc = "loaded" => widget = "none"
                /\ widget = "slider" => <<requested>> # call.current_year
                /\ widget \notin {"go", "prev", "next", "reset"} => rerun = "goes on"
                /\ event' = widget
                /\ current_year_index' = call.index
                /\ controls_current_year' = call.current_year
                /\ year_input' = IF widget = "go" THEN <<requested>>
                                 ELSE call.current_year
                /\ slider_year' = call.slider
                /\ subscripts' = call.subscripts
                /\ sidebar_error' = call.error
                /\ run_pc' = IF call.ended = "returned" THEN "controls_returned"
                             ELSE call.ended
                /\ raised' = IF call.ended = "raised" THEN call.returned ELSE <<>>
                /\ selected_year' = IF call.ended = "returned" THEN call.returned[1]
                                    ELSE selected_year
    /\ NewRunLocals
    /\ UNCHANGED <<self_gdf, loaded_gdf, environment, kmeans_fits, first_output>>

(***************************************************************************)
(* A session: runs of the script over one loaded data set                  *)
(*                                                                         *)
(* The data set holds the column 'Overall Homeless', which is the selected *)
(* indicator and the homeless count of the need analysis, for two regions  *)
(* and the years 2020-2022; the bed counts of a region are the same in     *)
(* every year.  scikit-learn is not installed and the chart is drawn.      *)
(***************************************************************************)
SessionYears == EstimatedYear - 1 .. EstimatedYear + 1

\* the cells a region can have in the column 'Overall Homeless' of a year;
\* AK-500 has no record before 2021
SessionCells(year, c) ==
    IF c = "AL-501" THEN {NoRecord, <<0>>, <<MaxCount>>}
    ELSE IF year < EstimatedYear THEN {NoRecord}
    ELSE {NoRecord, <<MaxCount>>}

\* the data sets load_data can return: at least one record
SessionDataSets ==
    {gdf \in [SessionYears \X CoCs -> IndicatorCells] :
        /\ \A k \in DOMAIN gdf : gdf[k] \in SessionCells(k[1], k[2])
        /\ \E k \in DOMAIN gdf : gdf[k] # NoRecord}

\* the regions in the order of their rows
SessionCoCs == <<"AK-500", "AL-501">>

\* column 'Total Year-Round Beds (ES, TH, SH)' of a region
SessionBeds == [c \in CoCs |-> IF c = "AK-500" THEN <<0>> ELSE <<1>>]

\* line 1140, _gdf[_gdf['Year'] == selected_year].copy(), with the count
\* columns of each record
SessionRows(gdf, year) ==
    LET Present(c) == <<year, c>> \in DOMAIN gdf /\ gdf[<<year, c>>] # NoRecord
        present == SelectSeq(SessionCoCs, Present)
    IN [i \in 1 .. Len(present) |->
           [homeless |-> gdf[<<year, present[i]>>], beds |-> SessionBeds[present[i]],
            sheltered |-> <<1>>]]

\* the filtered rows handed over in place of the data set
NeedAnalysisInput_Filtered(gdf, filtered, year) ==
    [k \in {year} \X DOMAIN filtered |-> <<filtered[k[2]]>>]

\* line 2267: the first argument of create_shelter_homeless_correlation_map
\* is self.gdf
NeedAnalysisInput(gdf, filtered, year) == gdf

\* lines 2143-2158: what the two multiselects can return
StateSelections == {{}, {"AK"}}
CategorySelections == {{}, {"Major Cities"}}

\* lines 2102-2103: the data set is loaded, the script has not run yet
Loaded ==
    /\ self_gdf \in SessionDataSets
    /\ loaded_gdf = self_gdf
    /\ run_pc = "loaded"
    /\ invoked = <<>>
    /\ raised = <<>>
    /\ TimelineIdle
    /\ selected_year = EstimatedYear
    /\ selected_states = {}
    /\ selected_categories = {}
    /\ value_range = Unbound

\* lines 2133-2174: the widgets of the indicator, the states, the
\* categories and the value range return what is selected; the locals of
\* the timeline controls are gone
ChooseFilters ==
    /\ run_pc = "controls_returned"
    /\ selected_states' \in StateSelections
    /\ selected_categories' \in CategorySelections
    /\ value_range' \in SliderRanges(self_gdf)
    /\ summary_pc' = "run"
    /\ run_pc' = "filters"
    /\ event' = "none"
    /\ year_input' = Unbound
    /\ slider_year' = Unbound
    /\ controls_current_year' = Unbound
    /\ subscripts' = <<>>
    /\ sidebar_error' = FALSE
    /\ UNCHANGED <<gdf_filtered, current_year, current_val, prev_val, change_pct,
                   yoy_change>>
    /\ UNCHANGED <<self_gdf, selected_year, loaded_gdf, raised, invoked,
                   current_year_index>>
    /\ UNCHANGED <<needVars, trendVars>>

\* lines 2208-2246: the map, the category chart and the state comparison
\* read gdf_filtered
Charts ==
    /\ run_pc = "filters"
    /\ summary_pc \in {"shown", "caught"}
    /\ invoked' = invoked \o <<<<"create_interactive_map", gdf_filtered>>,
                               <<"create_category_analysis", gdf_filtered>>,
                               <<"create_state_comparison", gdf_filtered>>>>
    /\ run_pc' = "charts"
    /\ UNCHANGED <<loaded_gdf, raised>>
    /\ UNCHANGED <<needVars, sessionVars, summaryVars, trendVars, timelineVars>>

\* lines 2248-2256 and 1701-1749: the bed capacity chart sums the rows of
\* gdf_filtered by state into the new frame df_beds
BedCapacity ==
    /\ run_pc = "charts"
    /\ invoked' = Append(invoked, <<"create_bed_capacity_analysis", gdf_filtered>>)
    /\ run_pc' = "beds"
    /\ UNCHANGED <<loaded_gdf, raised>>
    /\ UNCHANGED <<needVars, sessionVars, summaryVars, trendVars, timelineVars>>

\* lines 2258-2267 and 1140: the need analysis is called and copies the
\* records of the selected year
CallNeedAnalysis ==
    /\ run_pc = "beds"
    /\ LET _gdf == NeedAnalysisInput(self_gdf, gdf_filtered, selected_year)
       IN /\ current_data' = SessionRows(_gdf, selected_year)
          /\ invoked' = Append(invoked,
                               <<"create_shelter_homeless_correlation_map", _gdf>>)
    /\ FreshLocals
    /\ pc' = "start"
    /\ run_pc' = "need"
    /\ UNCHANGED <<environment, kmeans_fits, first_output>>
    /\ UNCHANGED <<loaded_gdf, raised>>
    /\ UNCHANGED <<sessionVars, summaryVars, trendVars, timelineVars>>

\* line 2280: create_trend_analysis(self.gdf, selected_states, ...)
CallTrend ==
    /\ run_pc = "need"
    /\ pc \in {"returned", "done", "error_reported"}
    /\ trend_pc' = "called"
    /\ invoked' = Append(invoked, <<"create_trend_analysis", self_gdf>>)
    /\ run_pc' = "trend"
    /\ UNCHANGED <<trend_data, trend_lines, trend_markers>>
    /\ UNCHANGED <<loaded_gdf, raised>>
    /\ UNCHANGED <<needVars, sessionVars, summaryVars, timelineVars>>

\* lines 2282-2286: the correlation chart reads gdf_filtered; the script
\* ends
Correlation ==
    /\ run_pc = "trend"
    /\ trend_pc = "drawn"
    /\ invoked' = Append(invoked, <<"create_correlation_analysis", gdf_filtered>>)
    /\ run_pc' = "ended"
    /\ UNCHANGED <<loaded_gdf, raised>>
    /\ UNCHANGED <<needVars, sessionVars, summaryVars, trendVars, timelineVars>>

(***************************************************************************)
(* Specifications                                                          *)
(***************************************************************************)
\* the need analysis is looked at on its own: run has not selected anything
NoSession ==
    /\ self_gdf = <<>>
    /\ selected_year = EstimatedYear + 2
    /\ selected_states = {}
    /\ selected_categories = {}
    /\ value_range = Unbound

\* create_shelter_homeless_correlation_map has not been called
NeedIdle ==
    /\ current_data = <<>>
    /\ pc = "idle"
    /\ Total_Beds = NoColumn
    /\ Total_Homeless = NoColumn
    /\ Sheltered_Homeless = NoColumn
    /\ Bed_Utilization_Rate = NoColumn
    /\ Bed_Gap = NoColumn
    /\ Bed_Gap_Percentage = NoColumn
    /\ gap_percentiles = <<>>
    /\ Need_Level = NoColumn
    /\ Bed_Gap_Ratio = NoColumn
    /\ Color_Need_Score = NoColumn
    /\ Cluster = NoColumn
    /\ cluster_success = "unbound"
    /\ beds_percentiles = <<>>
    /\ homeless_percentiles = <<>>
    /\ Beds_Class = NoColumn
    /\ Homeless_Class = NoColumn
    /\ Correlation_Class = NoColumn
    /\ level_counts = <<>>
    /\ displayed = <<>>
    /\ environment = AnyEnvironment
    /\ kmeans_fits = {}
    /\ first_output = <<>>

\* scikit-learn may or may not be importable
Init ==
    /\ Entered(MaxClusteredRegions)
    /\ environment = AnyEnvironment
    /\ NoSession
    /\ SummaryIdle
    /\ TrendIdle
    /\ OutsideRun

Next ==
    \/ NoData
    \/ DeriveMetrics
    \/ ClassifyNeed
    \/ ClusterUnavailable
    \/ ClusterTooFew
    \/ ClusterRanked

Spec == Init /\ [][Next]_vars

\* scikit-learn is not installed
InitNoSklearn ==
    /\ Entered(MaxRegions)
    /\ environment = [sklearn |-> "missing", plot |-> "any"]
    /\ NoSession
    /\ SummaryIdle
    /\ TrendIdle
    /\ OutsideRun

NextNoSklearn ==
    \/ NoData
    \/ DeriveMetrics
    \/ ClassifyNeed
    \/ ClusterUnavailable

SpecNoSklearn == InitNoSklearn /\ [][NextNoSklearn]_vars

\* the filters of run and one summary card
InitSummary == SummaryEntered /\ NeedIdle /\ TrendIdle /\ OutsideRun

NextSummary ==
    \/ NoMatch
    \/ FilterRows
    \/ SummaryCard
    \/ SummaryCardRaised

SpecSummary == InitSummary /\ [][NextSummary]_vars

\* the trend chart of one indicator
InitTrend ==
    /\ TrendEntered
    /\ selected_year = EstimatedYear + 2
    /\ selected_categories = {}
    /\ value_range = Unbound
    /\ NeedIdle
    /\ SummaryIdle
    /\ OutsideRun

NextTrend ==
    \/ TrendGroup
    \/ TrendEstimate
    \/ TrendDraw

SpecTrend == InitTrend /\ [][NextTrend]_vars

\* the need analysis of the years of one data set, scikit-learn not installed
InitYears ==
    /\ Called
    /\ environment = [sklearn |-> "missing", plot |-> "any"]
    /\ SummaryIdle
    /\ TrendIdle
    /\ OutsideRun

NextYears ==
    \/ SelectYear
    \/ NoData
    \/ DeriveMetrics
    \/ ClassifyNeed
    \/ ClusterUnavailable
    \/ CallAgain

SpecYears == InitYears /\ [][NextYears]_vars

\* two calls of the need analysis on one input, in an environment that
\* does not change between them
InitRepeat ==
    /\ Entered(MaxClusteredRegions)
    /\ \A r \in DOMAIN current_data : current_data[r] \in RepeatRows
    /\ environment \in FixedEnvironments
    /\ NoSession
    /\ SummaryIdle
    /\ TrendIdle
    /\ OutsideRun

NextRepeat ==
    \/ NoData
    \/ DeriveMetrics
    \/ ClassifyNeed
    \/ ClusterUnavailable
    \/ ClusterTooFew
    \/ ClusterRanked
    \/ ShowLegend
    \/ PlotChart
    \/ PlotFallback
    \/ SecondCall

SpecRepeat == InitRepeat /\ [][NextRepeat]_vars

\* the timeline controls over the runs of one session; the data set has
\* one region and any of four years
TimelineYears == FirstYear .. FirstYear + 3

InitTimeline ==
    /\ self_gdf \in {gdf \in [TimelineYears \X TrendCoCs -> {NoRecord, <<0>>}] :
                         \E k \in DOMAIN gdf : gdf[k] # NoRecord}
    /\ loaded_gdf = self_gdf
    /\ run_pc = "loaded"
    /\ invoked = <<>>
    /\ raised = <<>>
    /\ TimelineIdle
    /\ selected_year = FirstYear
    /\ selected_states = {}
    /\ selected_categories = {}
    /\ value_range = Unbound
    /\ NeedIdle
    /\ SummaryIdle
    /\ TrendIdle

NextTimeline == Timeline

SpecTimeline == InitTimeline /\ [][NextTimeline]_vars

\* the runs of one session: the timeline, the filters and the analyses in
\* the order of run; scikit-learn is not installed and the chart is drawn
InitSession ==
    /\ Loaded
    /\ current_data = <<>>
    /\ pc = "idle"
    /\ Total_Beds = NoColumn
    /\ Total_Homeless = NoColumn
    /\ Sheltered_Homeless = NoColumn
    /\ Bed_Utilization_Rate = NoColumn
    /\ Bed_Gap = NoColumn
    /\ Bed_Gap_Percentage = NoColumn
    /\ gap_percentiles = <<>>
    /\ Need_Level = NoColumn
    /\ Bed_Gap_Ratio = NoColumn
    /\ Color_Need_Score = NoColumn
    /\ Cluster = NoColumn
    /\ cluster_success = "unbound"
    /\ beds_percentiles = <<>>
    /\ homeless_percentiles = <<>>
    /\ Beds_Class = NoColumn
    /\ Homeless_Class = NoColumn
    /\ Correlation_Class = NoColumn
    /\ level_counts = <<>>
    /\ displayed = <<>>
    /\ environment = [sklearn |-> "missing", plot |-> "draws"]
    /\ kmeans_fits = {}
    /\ first_output = <<>>
    /\ SummaryIdle
    /\ TrendIdle

NextSession ==
    \/ Timeline
    \/ ChooseFilters
    \/ NoMatch
    \/ FilterRows
    \/ SummaryCard
    \/ SummaryCardRaised
    \/ Charts
    \/ BedCapacity
    \/ CallNeedAnalysis
    \/ DeriveMetrics
    \/ ClassifyNeed
    \/ ClusterUnavailable
    \/ ShowLegend
    \/ PlotChart
    \/ CallTrend
    \/ TrendGroup
    \/ TrendEstimate
    \/ TrendDraw
    \/ Correlation

SpecSession == InitSession /\ [][NextSession]_vars

\* the need analysis and the summary card, each on its own input
InitOutcomes == InitRepeat \/ InitSummary

NextOutcomes == NextRepeat \/ NextSummary

SpecOutcomes == InitOutcomes /\ [][NextOutcomes]_vars

(***************************************************************************)
(* Properties                                                              *)
(***************************************************************************)
Classified == pc \in {"classified", "clustered"}

\* the need level a row holds, or "" when the cell holds no string
LevelOf(r) == IF Need_Level[r][1] = "str" THEN Need_Level[r][2] ELSE ""

\* C1: right after classify_need_level has been applied to the rows of a
\* year, every row holds exactly one of the six need levels, and it holds
\* NO_DATA if and only if its total_homeless is 0.
C1_OneLevelPerRecord ==
    pc = "classified" =>
        \A r \in Rows :
            /\ Need_Level[r] \in {PyStr(l) : l \in NeedLevels}
            /\ (Need_Level[r] = PyStr("NO_DATA")) <=> (Total_Homeless[r] = 0)

C1_Witness ==
    /\ pc = "classified"
    /\ \E r \in Rows : Total_Homeless[r] = 0 /\ Need_Level[r] = PyStr("NO_DATA")
    /\ \E r \in Rows : Total_Homeless[r] > 0 /\ Bed_Gap_Percentage[r][1] = 0
                           /\ Need_Level[r] # PyStr("NO_DATA")

\* C2: a row with total_homeless > 0 is EXCELLENT when its gap percentage
\* does not exceed t1, GOOD when it exceeds t1 but not t2, MODERATE when it
\* exceeds t2 but not t3, HIGH when it exceeds t3 but not t4, and CRITICAL
\* when it exceeds t4; a value equal to a cut point falls on the better side.
C2_LevelByFirstCutPoint ==
    pc = "classified" =>
        \A r \in Rows :
            Total_Homeless[r] > 0 =>
                LET g == Bed_Gap_Percentage[r]
                    above(k) == RLt(gap_percentiles[k], g)
                    upTo(k) == ~above(k)
                IN /\ (LevelOf(r) = "EXCELLENT") <=> upTo(1)
                   /\ (LevelOf(r) = "GOOD") <=> (above(1) /\ upTo(2))
                   /\ (LevelOf(r) = "MODERATE") <=> (above(1) /\ above(2) /\ upTo(3))
                   /\ (LevelOf(r) = "HIGH") <=>
                          (above(1) /\ above(2) /\ above(3) /\ upTo(4))
                   /\ (LevelOf(r) = "CRITICAL") <=>
                          (above(1) /\ above(2) /\ above(3) /\ above(4))

\* a row above t1 that lies exactly on the equal cut points t2 = t3 and is GOOD
C2_Witness ==
    /\ pc = "classified"
    /\ \E r \in Rows :
           /\ Total_Homeless[r] > 0
           /\ RLt(gap_percentiles[1], Bed_Gap_Percentage[r])
           /\ REq(Bed_Gap_Percentage[r], gap_percentiles[2])
           /\ REq(gap_percentiles[2], gap_percentiles[3])
           /\ LevelOf(r) = "GOOD"

\* the gap percentages of the rows with total_homeless > 0, in row order
RECURSIVE WithHomeless(_, _)
WithHomeless(col, homeless) ==
    IF col = <<>> THEN <<>>
    ELSE (IF Head(homeless) > 0 THEN <<Head(col)>> ELSE <<>>)
             \o WithHomeless(Tail(col), Tail(homeless))

\* C3: the four cut points of a year are the 20th/40th/60th/80th percentiles
\* of the gap percentages of the rows with total_homeless > 0 only; rows
\* with total_homeless = 0 do not influence them.
C3_CutPointsIgnoreNoData ==
    (pc = "classified" /\ \E r \in Rows : Total_Homeless[r] > 0) =>
        \A k \in 1 .. 4 :
            REq(gap_percentiles[k],
                Quantile(WithHomeless(Bed_Gap_Percentage, Total_Homeless), k))

\* C4: after the clustering step every row still holds the need level that
\* classify_need_level gave it.
C4_ClusteringKeepsNeedLevel ==
    pc = "clustered" =>
        \A r \in Rows :
            Need_Level[r] =
                PyStr(classify_need_level(Bed_Gap_Percentage[r], Total_Homeless[r],
                                          gap_percentiles))

\* C5: the four cut points of a year are non-decreasing.
C5_CutPointsAscending ==
    Classified =>
        /\ RLeq(gap_percentiles[1], gap_percentiles[2])
        /\ RLeq(gap_percentiles[2], gap_percentiles[3])
        /\ RLeq(gap_percentiles[3], gap_percentiles[4])

\* a year whose cut points are all different
C5_Witness ==
    /\ pc = "classified"
    /\ RLt(gap_percentiles[1], gap_percentiles[2])
    /\ RLt(gap_percentiles[2], gap_percentiles[3])
    /\ RLt(gap_percentiles[3], gap_percentiles[4])

\* C6: among the rows of a year with total_homeless > 0, a row whose gap
\* percentage is not larger than another row's has a need level that is not
\* more severe.
C6_Monotonic ==
    pc = "classified" =>
        \A r1, r2 \in Rows :
            (/\ Total_Homeless[r1] > 0
             /\ Total_Homeless[r2] > 0
             /\ RLeq(Bed_Gap_Percentage[r1], Bed_Gap_Percentage[r2]))
                => need_level_scores[LevelOf(r1)] <= need_level_scores[LevelOf(r2)]

\* two rows with different gap percentages and different levels
C6_Witness ==
    /\ pc = "classified"
    /\ \E r1, r2 \in Rows :
           /\ Total_Homeless[r1] > 0
           /\ Total_Homeless[r2] > 0
           /\ RLt(Bed_Gap_Percentage[r1], Bed_Gap_Percentage[r2])
           /\ LevelOf(r1) = "GOOD"
           /\ LevelOf(r2) = "HIGH"

\* C7: bed_gap is total_homeless - total_beds; bed_gap_pct is
\* bed_gap / total_homeless * 100 when total_homeless > 0 and 0 otherwise;
\* bed_utilization_rate is sheltered_homeless / total_beds * 100 when
\* total_beds > 0 and 0 otherwise; every derived value is a number.
C7_DerivedMetrics ==
    /\ pc \in {"metrics", "classified", "clustered"} =>
           \A r \in Rows :
               /\ Total_Homeless[r] \in Nat
               /\ Total_Beds[r] \in Nat
               /\ Sheltered_Homeless[r] \in Nat
               /\ Bed_Gap[r] \in Int
               /\ Bed_Gap[r] + Total_Beds[r] = Total_Homeless[r]
               /\ Bed_Utilization_Rate[r][2] > 0
               /\ IF Total_Beds[r] > 0
                  THEN Bed_Utilization_Rate[r][1] * Total_Beds[r]
                           = Sheltered_Homeless[r] * 100 * Bed_Utilization_Rate[r][2]
                  ELSE Bed_Utilization_Rate[r][1] = 0
    /\ Classified =>
           \A r \in Rows :
               /\ Bed_Gap_Percentage[r][2] > 0
               /\ IF Total_Homeless[r] > 0
                  THEN Bed_Gap_Percentage[r][1] * Total_Homeless[r]
                           = Bed_Gap[r] * 100 * Bed_Gap_Percentage[r][2]
                  ELSE Bed_Gap_Percentage[r][1] = 0

\* a year with a surplus row, a row without homeless, a row without beds and
\* a row whose counts are all missing
C7_Witness ==
    /\ pc = "classified"
    /\ \E r \in Rows : Bed_Gap[r] < 0 /\ Total_Homeless[r] > 0
                           /\ Bed_Gap_Percentage[r][1] < 0
    /\ \E r \in Rows : Total_Homeless[r] = 0 /\ Total_Beds[r] > 0
    /\ \E r \in Rows : Total_Beds[r] = 0 /\ Total_Homeless[r] > 0
    /\ \E r \in Rows : current_data[r].homeless = MissingCell

(***************************************************************************)
(* Properties of the cluster ranking                                       *)
(***************************************************************************)
\* the rows the clustering step ranked i
RankRows(i) == {r \in Rows : Need_Level[r] = PyInt(i)}

\* C8: when clustering succeeds, for any two ranked clusters i < j the
\* mean severity score of cluster i (scores taken from the need levels
\* assigned before clustering) is at least that of cluster j.
C8_RankedByMeanSeverity ==
    (pc = "clustered" /\ cluster_success = "true") =>
        \A i, j \in 0 .. 2 :
            (i < j /\ RankRows(i) # {} /\ RankRows(j) # {}) =>
                SumOver(Color_Need_Score, RankRows(j)) * Cardinality(RankRows(i))
                    <= SumOver(Color_Need_Score, RankRows(i)) * Cardinality(RankRows(j))

\* three clusters of strictly decreasing mean severity whose library labels
\* are in increasing order of severity
C8_Witness ==
    /\ pc = "clustered"
    /\ cluster_success = "true"
    /\ \A i \in 0 .. 2 : RankRows(i) # {}
    /\ \A i \in 0 .. 1 :
           SumOver(Color_Need_Score, RankRows(i + 1)) * Cardinality(RankRows(i))
               < SumOver(Color_Need_Score, RankRows(i)) * Cardinality(RankRows(i + 1))
    /\ \A r \in Rows : Need_Level[r] = PyInt(2 - Cluster[r])

\* the cluster ids in use after the clustering step
UsedIds == {i \in 0 .. 2 : RankRows(i) # {}}

\* C9 as stated: with 3 or more feature vectors, identical ones included, the
\* assignments use exactly the three cluster ids 0, 1 and 2.
C9_ExactlyThreeIds ==
    (pc = "clustered" /\ cluster_success = "true") =>
        /\ \A r \in Rows : \E i \in 0 .. 2 : Need_Level[r] = PyInt(i)
        /\ UsedIds = {0, 1, 2}

\* C9 as amended: with 3 or more feature vectors every region gets exactly
\* one cluster id, and the ids in use are 0 .. k-1, where k, between 1 and 3,
\* is the number of non-empty clusters of the library's labelling; k is not
\* more than the number of distinct feature vectors.
C9_IdsAreRanksOfNonEmptyClusters ==
    (pc = "clustered" /\ cluster_success = "true") =>
        LET k == Cardinality({Cluster[r] : r \in Rows})
            distinct ==
                Cardinality({<<Color_Need_Score[r], Bed_Utilization_Rate[r],
                               Bed_Gap_Ratio[r]>> : r \in Rows})
        IN /\ Len(current_data) >= 3
           /\ \A r \in Rows : \E i \in 0 .. 2 : Need_Level[r] = PyInt(i)
           /\ k \in 1 .. 3
           /\ k <= distinct
           /\ UsedIds = 0 .. (k - 1)

\* three identical feature vectors end in the single cluster 0
C9_Witness ==
    /\ pc = "clustered"
    /\ cluster_success = "true"
    /\ Len(current_data) = 3
    /\ \A r \in Rows : Total_Homeless[r] > 0
    /\ UsedIds = {0}

\* C10: with fewer than 3 regions the clustering step ends with
\* cluster_success false, no clustering run and no cluster label on any
\* region, and the function goes on.
C10_TooFewRegionsUnavailable ==
    (pc = "clustered" /\ Len(current_data) < 3) =>
        /\ cluster_success = "false"
        /\ Cluster = NoColumn
        /\ \A r \in Rows : Need_Level[r][1] = "str"

\* a year of two regions past the clustering step, features built
C10_Witness ==
    /\ pc = "clustered"
    /\ Len(current_data) = 2
    /\ Len(Color_Need_Score) = 2
    /\ cluster_success = "false"

(***************************************************************************)
(* Properties of the year-over-year change of a summary card               *)
(***************************************************************************)
\* a card with its change has been produced without any statement raising
CardShown == summary_pc = "shown" /\ selected_year > FirstYear

C12_SignedPercentage ==
    (CardShown /\ prev_val # Unbound /\ prev_val # <<0>>) =>
        /\ change_pct # Unbound
        /\ LET q == change_pct[1]
               cur == current_val[1]
               prev == prev_val[1]
           IN /\ q[1] * prev = (cur - prev) * 100 * q[2]
              /\ (cur < prev) <=> (q[1] < 0)
              /\ yoy_change[1] = "%"
              /\ yoy_change[2] = (IF cur >= prev THEN "#09ab3b" ELSE "#dc2626")
              /\ 2 * Abs(10 * q[1] - yoy_change[3] * q[2]) <= q[2]

C12_Witness ==
    /\ CardShown
    /\ prev_val = <<1>>
    /\ current_val = <<2>>
    /\ change_pct = <<Rat(100, 1)>>
    /\ yoy_change = <<"%", "#09ab3b", 1000>>

\* C13 (as stated): no change that a card displays has the raw total of 2021
\* on either side, that is, no change is displayed for the selected year
\* 2021 (current side) nor for 2022 (prior side); every total of a card is
\* a raw total.
C13_Raw2021NeverCompared ==
    (summary_pc = "shown" /\ yoy_change[1] = "%") =>
        /\ selected_year # EstimatedYear
        /\ selected_year - 1 # EstimatedYear

\* the regions of a year that the state and category selection keeps
Selected(year) ==
    {c \in CoCs : /\ self_gdf[<<year, c>>] # NoRecord
                  /\ (selected_states = {} \/ StateOf[c] \in selected_states)
                  /\ (selected_categories = {} \/ CategoryOf[c] \in selected_categories)}

\* the total of a year over some of its regions
TotalOver(year, regions) ==
    SumOver([c \in regions |-> self_gdf[<<year, c>>][1]], regions)

\* the regions with a record in both compared years
InBothYears ==
    {c \in CoCs : /\ self_gdf[<<selected_year, c>>] # NoRecord
                  /\ self_gdf[<<selected_year - 1, c>>] # NoRecord}

InTrend(year) ==
    {c \in CoCs : /\ <<year, c>> \in DOMAIN self_gdf
                  /\ self_gdf[<<year, c>>] # NoRecord
                  /\ (selected_states = {} \/ StateOf[c] \in selected_states)}

\* the raw total of a year of the trend chart
RawTotal(year) == SumOver([c \in InTrend(year) |-> self_gdf[<<year, c>>][1]], InTrend(year))

\* the rows of trend_data that belong to a year
TrendRows(year) == {i \in 1 .. Len(trend_data) : trend_data[i].Year = year}

\* C14: when the series holds 2020, 2021 and 2022, the value of 2021 is
\* exactly the mean of the 2020 and 2022 values, whatever the raw 2021 total
\* is, the value of every other year is its raw total, and the marker of
\* 2021 is drawn with that mean and named '2021 (Estimated)'.
C14_Estimated2021IsMean ==
    (/\ trend_pc \in {"estimated", "drawn"}
     /\ \A y \in {EstimatedYear - 1, EstimatedYear, EstimatedYear + 1} : InTrend(y) # {}) =>
        /\ \A i \in 1 .. Len(trend_data) :
               LET v == trend_data[i].value
                   y == trend_data[i].Year
               IN IF y = EstimatedYear
                  THEN 2 * v[1] = (RawTotal(y - 1) + RawTotal(y + 1)) * v[2]
                  ELSE v = <<RawTotal(y), 1>>
        /\ \A y \in TrendYears : Cardinality(TrendRows(y)) = (IF InTrend(y) = {} THEN 0 ELSE 1)
        /\ trend_pc = "drawn" =>
               \A i \in 1 .. Len(trend_markers) :
                   /\ trend_markers[i].x = trend_data[i].Year
                   /\ trend_markers[i].y = trend_data[i].value
                   /\ (trend_markers[i].name = "2021 (Estimated)")
                          <=> (trend_markers[i].x = EstimatedYear)

C14_Witness ==
    /\ trend_pc = "drawn"
    /\ RawTotal(EstimatedYear - 1) = 1
    /\ RawTotal(EstimatedYear + 1) = 2
    /\ InTrend(EstimatedYear) # {}
    /\ RawTotal(EstimatedYear) = 0
    /\ \E i \in 1 .. Len(trend_markers) :
           /\ trend_markers[i].x = EstimatedYear
           /\ trend_markers[i].y = <<3, 2>>
           /\ trend_markers[i].name = "2021 (Estimated)"

\* C15 (as stated): every line of the trend chart that has 2021 as one of
\* its two end points is dashed, whichever years are present.
C15_EdgesAt2021Dashed ==
    trend_pc = "drawn" =>
        \A i \in 1 .. Len(trend_lines) :
            (trend_lines[i].x[1] = EstimatedYear \/ trend_lines[i].x[2] = EstimatedYear)
                => trend_lines[i].dash = "dash"

WithOtherYears(other) ==
    [k \in DOMAIN self_gdf |-> IF k[1] = selected_year THEN self_gdf[k] ELSE other[k]]

\* the data sets that agree with self.gdf on the selected year
AgreeingDataSets ==
    {WithOtherYears(other) :
        other \in [(NeedYears \ {selected_year}) \X {NeedCoCs[i] : i \in DOMAIN NeedCoCs}
                       -> YearCells]}

\* C18: whatever years were analysed before, the cut points and the need
\* levels of the selected year are those of every data set that has the same
\* records of that year, however its records of the other years differ.
C18_OnlyTheSelectedYear ==
    (pc \in {"classified", "clustered"} /\ cluster_success # "true") =>
        \A gdf \in AgreeingDataSets :
            /\ AnalyseYear(gdf, selected_year).gap_percentiles = gap_percentiles
            /\ AnalyseYear(gdf, selected_year).Need_Level = Need_Level

C18_Witness ==
    /\ pc = "clustered"
    /\ Len(current_data) = 2
    /\ \E year \in NeedYears \ {selected_year} :
           /\ Len(CurrentData(self_gdf, year)) = 3
           /\ \A k \in 1 .. 4 :
                  AnalyseYear(self_gdf, year).gap_percentiles[k] # gap_percentiles[k]

(***************************************************************************)
(* Properties of repeated calls and of the handlers                        *)
(***************************************************************************)
\* the call has ended
Ended == pc \in {"returned", "done", "error_reported"}

LastDisplayed == displayed[Len(displayed)]

\* C20: no exception leaves the need analysis or get_yoy_change: a call of
\* the need analysis ends with the 'No data found' warning, with the chart
\* over classified rows (clustering done or unavailable), or with a reported
\* error; get_yoy_change ends with the empty text, 'N/A' or a percentage.
C20_NoExceptionEscapes ==
    /\ pc = "returned" => LastDisplayed = <<"st.warning", "No data found">>
    /\ pc = "done" =>
           /\ LastDisplayed = <<"st.plotly_chart", "fig">>
           /\ cluster_success \in {"true", "false"}
           /\ \A r \in Rows : Need_Level[r][1] \in {"str", "int"}
    /\ pc = "error_reported" => LastDisplayed[1] = "st.error"
    /\ summary_pc \in {"shown", "caught"} =>
           yoy_change \in {NoText, NotAvailable} \/ yoy_change[1] = "%"
    /\ pc \in {"idle", "start", "metrics", "classified", "clustered", "legend",
               "returned", "done", "error_reported"}
    /\ summary_pc \in {"idle", "run", "filtered", "no_match", "shown", "caught"}

C20_Witness ==
    /\ pc = "error_reported"
    /\ first_output = <<>>
    /\ Len(current_data) = 2
    /\ \A r \in Rows : Total_Homeless[r] = 0 /\ Total_Beds[r] = 0
    /\ cluster_success = "false"
    /\ LastDisplayed = <<"st.error", "NameError: correlation_colors">>

(***************************************************************************)
(* Properties of a session                                                 *)
(***************************************************************************)

\* C21: the analyses never change the data set they are given: after any
\* sequence of year navigations, filter changes and analysis calls (summary
\* card, trend chart with the replacement of 2021, need analysis, bed
\* capacity chart) self.gdf holds the records and values load_data returned.
C21_InputSnapshotKept == self_gdf = loaded_gdf

\* a run that has navigated away from the latest year, filtered by
\* category, called every analysis and replaced the value of 2021 in
\* trend_data
C21_Witness ==
    /\ run_pc = "ended"
    /\ Len(invoked) = 8
    /\ pc = "done"
    /\ selected_year = EstimatedYear - 1
    /\ selected_categories = {"Major Cities"}
    /\ ValuesOf(trend_data, EstimatedYear)
           # ValuesOf(GroupByYear(self_gdf, selected_states), EstimatedYear)

(***************************************************************************)
(* Properties of the timeline controls                                     *)
(***************************************************************************)
\* the position of the year the controls displayed, counted from 0
DisplayedPosition == ListIndex(YearsOf(self_gdf), controls_current_year[1])[2]

\* the year asked for with the Go button or with the slider
RequestedYear == IF event = "go" THEN year_input[1] ELSE slider_year[1]

\* C22: for a non-empty sorted list of years, starting from the flag 999
\* and after any sequence of Prev, Next, Go, slider and Reset, every index
\* the year list is subscripted with lies in 0 .. len(years) - 1, the year
\* the controls return is one of the available years, and the first
\* selection of a session is the latest available year.
C22_IndexInBoundsYearAvailable ==
    /\ [](/\ \A i \in DOMAIN subscripts :
                 subscripts[i] >= 0 /\ subscripts[i] <= Len(YearsOf(self_gdf)) - 1
          /\ raised # <<"IndexError">>
          /\ run_pc = "controls_returned" =>
                 /\ selected_year \in Elements(YearsOf(self_gdf))
                 /\ current_year_index \in 0 .. Len(YearsOf(self_gdf)) - 1)
    /\ [][(run_pc = "loaded" /\ current_year_index = FirstRunFlag) =>
              /\ run_pc' = "controls_returned"
              /\ selected_year' = SetMax(Elements(YearsOf(self_gdf)))]_vars

\* Go has moved a session of three years to the first of them
C22_Witness ==
    /\ run_pc = "controls_returned"
    /\ event = "go"
    /\ Len(YearsOf(self_gdf)) = 3
    /\ current_year_index = 0
    /\ controls_current_year # <<selected_year>>
    /\ Len(subscripts) = 2

\* C23: Prev and Next move the index by one position and saturate: Prev at
\* index 0 and Next at index len(years) - 1 leave it unchanged, elsewhere
\* Prev decreases it by 1 and Next increases it by 1.
C23_PrevNextSaturate ==
    /\ event = "prev" =>
           \/ DisplayedPosition = 0 /\ current_year_index = 0
           \/ DisplayedPosition > 0 /\ current_year_index = DisplayedPosition - 1
    /\ event = "next" =>
           \/ /\ DisplayedPosition = Len(YearsOf(self_gdf)) - 1
              /\ current_year_index = DisplayedPosition
           \/ /\ DisplayedPosition < Len(YearsOf(self_gdf)) - 1
              /\ current_year_index = DisplayedPosition + 1

\* Prev was pressed at the first of several years
C23_Witness ==
    /\ event = "prev"
    /\ Len(YearsOf(self_gdf)) > 1
    /\ DisplayedPosition = 0
    /\ current_year_index = 0

\* C24: a request for a year between the first and the last available year
\* that is not itself available leaves current_year_index unchanged and
\* raises no exception, with the Go button and with the slider.
C24_UnavailableYearIgnored ==
    (/\ event \in {"go", "slider"}
     /\ RequestedYear \notin Elements(YearsOf(self_gdf)))
        => /\ current_year_index = DisplayedPosition
           /\ raised = <<>>

(***************************************************************************)
(* Properties of the distribution statistics, the filters and the charts   *)
(***************************************************************************)
\* the rows that classify_need_level assigns to a level
RowsOfLevel(level) ==
    {r \in Rows : classify_need_level(Bed_Gap_Percentage[r], Total_Homeless[r],
                                      gap_percentiles) = level}

\* C25 (as stated): the count that 'Current Distribution Statistics' shows
\* for each of the six need levels is the number of regions that
\* classify_need_level assigned to the level, so the six counts sum to the
\* number of regions of the year, also when 3 or more regions are present
\* and the clustering has succeeded.
C25_CountsOfAssignedLevels ==
    pc \in {"legend", "done", "error_reported"} =>
        /\ \A level \in NeedLevels :
               level_counts[level] = Cardinality(RowsOfLevel(level))
        /\ SumOver(level_counts, NeedLevels) = Len(current_data)

\* the analyses of run that work on the records of the selected year
PerYearAnalyses ==
    {"create_summary_metrics", "create_interactive_map", "create_category_analysis",
     "create_state_comparison", "create_bed_capacity_analysis",
     "create_correlation_analysis"}

\* the regions whose record of the selected year passes every active filter
Admitted ==
    {c \in CoCs :
        /\ self_gdf[<<selected_year, c>>] # NoRecord
        /\ selected_states # {} => StateOf[c] \in selected_states
        /\ selected_categories # {} => CategoryOf[c] \in selected_categories
        /\ value_range # Unbound =>
               /\ self_gdf[<<selected_year, c>>][1] >= value_range[1]
               /\ self_gdf[<<selected_year, c>>][1] <= value_range[2]}

\* C26: the record set run hands to the per-year analyses is not empty,
\* holds records of the selected year only, and holds exactly the records
\* that pass every active filter (an empty state or category selection
\* restricts nothing); when no record matches, run warns and calls none of
\* these analyses.
C26_FilteredRecordsHandedOver ==
    /\ \A i \in DOMAIN invoked :
           invoked[i][1] \in PerYearAnalyses =>
               /\ DOMAIN invoked[i][2] # {}
               /\ DOMAIN invoked[i][2] = Admitted
               /\ \A c \in DOMAIN invoked[i][2] :
                      self_gdf[<<selected_year, c>>] = <<invoked[i][2][c]>>
    /\ summary_pc = "no_match" => Admitted = {} /\ invoked = <<>>
    /\ summary_pc = "filtered" => Admitted # {}
    /\ run_pc = "ended" =>
           PerYearAnalyses \subseteq {invoked[i][1] : i \in DOMAIN invoked}

\* a run that has ended after the state filter and the value range left one
\* of the two regions of the year
C26_Witness ==
    /\ run_pc = "ended"
    /\ selected_states = {"AK"}
    /\ selected_categories = {}
    /\ value_range # Unbound
    /\ Cardinality(YearRecords(self_gdf, selected_year)) = 2
    /\ DOMAIN gdf_filtered = {"AK-500"}

\* the regions whose record of the prior year passes the state, category
\* and value-range filters of the run
AdmittedBefore ==
    {c \in CoCs :
        /\ self_gdf[<<selected_year - 1, c>>] # NoRecord
        /\ selected_states # {} => StateOf[c] \in selected_states
        /\ selected_categories # {} => CategoryOf[c] \in selected_categories
        /\ value_range # Unbound =>
               /\ self_gdf[<<selected_year - 1, c>>][1] >= value_range[1]
               /\ self_gdf[<<selected_year - 1, c>>][1] <= value_range[2]}

\* C27 (as stated): the prior-year total of a year-over-year change is
\* taken over the prior-year records that the state, category and
\* value-range filters of the current year admit.
C27_PriorTotalUnderSameFilters ==
    (CardShown /\ prev_val # Unbound) =>
        prev_val[1] = SumOver([c \in AdmittedBefore |->
                                  self_gdf[<<selected_year - 1, c>>][1]], AdmittedBefore)

\* C28: for one data set and one selected year, the cut points and the need
\* level of every region are those of all regions of the year, whatever
\* state, category and value-range selection (leaving at least one record)
\* the run was made with.
C28_NeedAnalysisIgnoresFilters ==
    (run_pc = "need" /\ pc \in {"classified", "clustered", "legend", "done"}) =>
        /\ gap_percentiles = AnalyseRows(SessionRows(self_gdf, selected_year)).gap_percentiles
        /\ Need_Level = AnalyseRows(SessionRows(self_gdf, selected_year)).Need_Level
        /\ \A states \in StateSelections, categories \in CategorySelections :
           \A range \in SliderRanges(self_gdf) :
               LET filtered == FilteredRows(self_gdf, selected_year, states,
                                            categories, range)
                   other == AnalyseRows(SessionRows(
                                NeedAnalysisInput(self_gdf, filtered, selected_year),
                                selected_year))
               IN DOMAIN filtered # {} =>
                      /\ other.gap_percentiles = gap_percentiles
                      /\ other.Need_Level = Need_Level

\* the need analysis has classified both regions of the year in a run whose
\* filters left one of them
C28_Witness ==
    /\ run_pc = "need"
    /\ pc = "done"
    /\ Len(current_data) = 2
    /\ Cardinality(DOMAIN gdf_filtered) = 1
    /\ Need_Level[1] # Need_Level[2]

\* C29 (as stated): the point of 2021 is marked as estimated exactly when
\* its value was replaced by the mean of 2020 and 2022; when 2020 or 2022
\* is absent from the series it keeps its raw value and is not marked.
C29_MarkedIffReplaced ==
    trend_pc = "drawn" =>
        \A i \in 1 .. Len(trend_markers) :
            trend_markers[i].x = EstimatedYear =>
                /\ (trend_markers[i].name = "2021 (Estimated)") <=>
                       (InTrend(EstimatedYear - 1) # {} /\ InTrend(EstimatedYear + 1) # {})
                /\ (InTrend(EstimatedYear - 1) = {} \/ InTrend(EstimatedYear + 1) = {}) =>
                       trend_markers[i].y = Rat(RawTotal(EstimatedYear), 1)

\* the rows with a homeless population
Populated == {r \in Rows : Total_Homeless[r] > 0}

\* C30 (as stated): in a year with at least two regions that have
\* total_homeless > 0, these regions are not all given the same need level,
\* also when they all have the same bed gap percentage.
C30_NoSingleCategory ==
    (pc = "classified" /\ Cardinality(Populated) >= 2) =>
        \E r1, r2 \in Populated : Need_Level[r1] # Need_Level[r2]

====
